---- MODULE Spec2Model ----
(***************************************************************************)
(* Verification model of the spark compiler core: the IR context and its   *)
(* type store (codegen/ir.rs, ir/mod.rs), the type lowerer's size          *)
(* computation and the two-pass backend driver (codegen/llvm/mod.rs) and   *)
(* the statement / expression lowerer (codegen/llvm/astgen.rs).            *)
(*                                                                         *)
(* Three specifications share the module:                                  *)
(*   SpecCtx   the IR context: type store, function and module arenas      *)
(*   SpecCast  the cast engine applied to bounded inputs                   *)
(*   SpecGen   the backend driver and the statement lowerer                *)
(***************************************************************************)
EXTENDS Integers, Sequences, FiniteSets, TLC

VARIABLES
    \* ---- IR context (SparkCtx, IrContext) ----
    types,      \* SparkCtx.types : the store of Type {data, id}, index = id + 1
    irtypes,    \* IrContext.types: the store of IrType
    nfuns,      \* SparkCtx.funs  : number of functions in the arena
    nmodules,   \* SparkCtx.modules: number of modules in the arena
    COUNT,      \* static mut COUNT of codegen/ir.rs
    calls,      \* the new_type calls made so far: <<[data, id, grew]>>
    \* ---- cast engine: one expression, its emitted code and its run ----
    expr,       \* the expression handed to gen_expr
    code,       \* the instructions the builder emitted for it
    outv,       \* the operand gen_expr returned
    cpc,        \* "start", "run", "done" or "error" (a diagnostic)
    ip,         \* index of the next instruction to execute
    regs,       \* values of the registers written so far
    mem,        \* contents of the stack slots allocated so far
    \* ---- LlvmCodeGenerator (codegen/llvm/mod.rs) ----
    funs,               \* SparkCtx.funs: the functions of the module tree
    llvm_funs,          \* FunId -> backend function: the FunIds that have one
    protos,             \* the add_function calls made, in order
    codegened_funs,     \* the already-forwarded FunIds
    current_scope,      \* ScopeMap: a stack of layers, name -> definition
    current_fun,        \* Option<FunId> of the body being emitted
    phi_data,           \* Option<PhiData>
    continue_bb,        \* Option<BasicBlock>
    break_bb,           \* Option<BasicBlock>
    placed_terminator,  \* bool
    diags,              \* the diagnostics emitted so far
    blocks,             \* the basic blocks appended so far, with their code
    insert_block,       \* the block the builder is positioned at
    nalloca,            \* number of stack slots the builder has named
    phis,               \* every PhiData constructed so far
    pc,                 \* position of the driver inside codegen_module
    root,               \* the module codegen_module was called with
    work,               \* the rest of the walk the running pass has to do
    lowered,            \* results of the statements of the current body
    ncalls,             \* number of codegen_module calls made
    \* ---- a second SparkCtx of the same process ----
    types2,     \* its store of Type {data, id}
    \* ---- one get_def call ----
    dmod,       \* the module get_def is called on
    dpath,      \* the path it is called with
    dres        \* its result, None before the call

ctxVars == <<types, irtypes, nfuns, nmodules, COUNT, calls>>
castVars == <<expr, code, outv, cpc, ip, regs, mem>>
genVars == <<funs, llvm_funs, protos, codegened_funs, current_scope,
             current_fun, phi_data, continue_bb, break_bb, placed_terminator,
             diags, blocks, insert_block, nalloca, phis, pc, root, work,
             lowered, ncalls>>
defVars == <<dmod, dpath, dres>>

vars == <<types, irtypes, nfuns, nmodules, COUNT, calls,
          expr, code, outv, cpc, ip, regs, mem,
          funs, llvm_funs, protos, codegened_funs, current_scope,
          current_fun, phi_data, continue_bb, break_bb, placed_terminator,
          diags, blocks, insert_block, nalloca, phis, pc, root, work,
          lowered, ncalls, types2, dmod, dpath, dres>>

(***************************************************************************)
(* Bounds                                                                  *)
(***************************************************************************)
MaxNewTypes == 2     \* types added to a context after construction
MaxArena    == 1     \* functions and modules added to a context

(***************************************************************************)
(* Arena and Interner (crate::arena)                                       *)
(***************************************************************************)
\* Index<T>::from_raw(i) addresses the (i+1)-th element of a store
At(store, id) == store[id + 1]

\* id that the next inserted element receives
NextId(store) == Len(store)

\* Interner::insert: the id of a structurally equal entry when there is one,
\* otherwise the id of the appended entry
InternerInsert(store, val) ==
    IF \E i \in 1..Len(store) : store[i] = val
    THEN [store |-> store,
          id    |-> (CHOOSE i \in 1..Len(store) : store[i] = val) - 1]
    ELSE [store |-> Append(store, val), id |-> Len(store)]


(***************************************************************************)
(* TypeData (codegen/ir.rs) and IrType (ir/mod.rs)                         *)
(***************************************************************************)
NoName == "<none>"      \* Option::None of an optional name

Integer(signed, width) == [k |-> "Integer", signed |-> signed, width |-> width]
Float(doublewide)      == [k |-> "Float", doublewide |-> doublewide]
BoolT                  == [k |-> "Bool"]
UnitT                  == [k |-> "Unit"]
Pointer(t)             == [k |-> "Pointer", to |-> t]
Array(e, n)            == [k |-> "Array", element |-> e, len |-> n]
Struct(name, fields)   == [k |-> "Struct", name |-> name, fields |-> fields]
Enum(name, parts)      == [k |-> "Enum", name |-> name, parts |-> parts]
Alias(t)               == [k |-> "Alias", to |-> t]
Invalid(n)             == [k |-> "Invalid", tag |-> n]
Function(fty)          == [k |-> "Function", return_ty |-> fty.return_ty,
                           args |-> fty.args]

\* struct FunctionType { return_ty, args }
FunctionType(return_ty, args) == [return_ty |-> return_ty, args |-> args]

\* struct Type { data, id }
Type(id, data) == [data |-> data, id |-> id]

\* Interner::insert_with(|id| Type { id, data }): the value is built from the
\* id it is about to receive and then interned like any other value
InternerInsertWith(store, data) ==
    InternerInsert(store, Type(NextId(store), data))

\* The named constants of SparkCtx
I8   == 0
I16  == 1
I32  == 2
I64  == 3
U8   == 4
U16  == 5
U32  == 6
U64  == 7
F32  == 8
F64  == 9
BOOL == 10
UNIT == 11

\* The named constants of IrContext
IrI8   == 0
IrI16  == 1
IrI32  == 2
IrI64  == 3
IrU8   == 4
IrU16  == 5
IrU32  == 6
IrU64  == 7
IrBOOL == 8
IrUNIT == 9
IrF32  == 10
IrF64  == 11

\* The data inserted by the twelve types.insert_with calls of SparkCtx::new
SparkPrimitives ==
    << Integer(TRUE, 8),  Integer(TRUE, 16),  Integer(TRUE, 32),  Integer(TRUE, 64),
       Integer(FALSE, 8), Integer(FALSE, 16), Integer(FALSE, 32), Integer(FALSE, 64),
       Float(FALSE), Float(TRUE), BoolT, UnitT >>

\* The values inserted by the twelve types.insert calls of IrContext::new
IrPrimitives ==
    << Integer(TRUE, 8),  Integer(TRUE, 16),  Integer(TRUE, 32),  Integer(TRUE, 64),
       Integer(FALSE, 8), Integer(FALSE, 16), Integer(FALSE, 32), Integer(FALSE, 64),
       BoolT, UnitT, Float(FALSE), Float(TRUE) >>

RECURSIVE InsertAllWith(_, _)
InsertAllWith(store, datas) ==
    IF datas = << >> THEN store
    ELSE InsertAllWith(
            InternerInsertWith(store, Head(datas)).store,
            Tail(datas))

RECURSIVE InsertAll(_, _)
InsertAll(store, vals) ==
    IF vals = << >> THEN store
    ELSE InsertAll(InternerInsert(store, Head(vals)).store, Tail(vals))

\* SparkCtx::new: the type store after construction
SparkCtxNew == InsertAllWith(<< >>, SparkPrimitives)

\* IrContext::new: the type store after construction
IrContextNew == InsertAll(<< >>, IrPrimitives)

\* SparkCtx::new_type
new_type(store, data) == InternerInsertWith(store, data)

\* SparkCtx::unwrap_alias: follow Alias links to the first non-alias type.
\* fuel counts the links that may still be followed; -1 reports that the
\* walk did not end within the fuel given.
RECURSIVE UnwrapFrom(_, _, _)
UnwrapFrom(store, ty, fuel) ==
    IF At(store, ty).data.k # "Alias" THEN ty
    ELSE IF fuel = 0 THEN -1
    ELSE UnwrapFrom(store, At(store, ty).data.to, fuel - 1)

\* unwrap_alias that removes one Alias layer only
unwrap_alias_once(store, ty) ==
    IF At(store, ty).data.k = "Alias" THEN At(store, ty).data.to ELSE ty

unwrap_alias(store, ty) == UnwrapFrom(store, ty, Len(store))

(***************************************************************************)
(* Type lowerer: byte sizes and the enum layout (codegen/llvm/mod.rs)      *)
(***************************************************************************)
\* ptr_size(): the pointer byte size of the target's data layout
PtrSize == 8

\* the value standing for a panic (unreachable!(), unwrap of None)
Unreachable == -1

Max(a, b) == IF a >= b THEN a ELSE b

RECURSIVE size_of_type(_, _)
RECURSIVE SizeMax(_, _)
RECURSIVE SizeSum(_, _)

\* iter().map(size_of_type).max().unwrap_or(0)
SizeMax(store, ids) ==
    IF ids = << >> THEN 0
    ELSE Max(size_of_type(store, Head(ids)), SizeMax(store, Tail(ids)))

\* fields.iter().map(|field| size_of_type(field.0)).sum()
SizeSum(store, fields) ==
    IF fields = << >> THEN 0
    ELSE size_of_type(store, Head(fields)[1]) + SizeSum(store, Tail(fields))

biggest_size(store, ids) == SizeMax(store, ids)

size_of_type(store, ty) ==
    LET d == At(store, ty).data IN
    CASE d.k = "Integer" -> d.width \div 8
      [] d.k = "Float"   -> IF d.doublewide THEN 8 ELSE 4
      [] d.k = "Enum"    -> biggest_size(store, d.parts)
      [] d.k = "Bool"    -> 1
      [] d.k = "Struct"  -> SizeSum(store, d.fields)
      [] d.k = "Unit"    -> 0
      [] d.k = "Pointer" -> PtrSize
      [] d.k = "Array"   -> size_of_type(store, d.element) * d.len
      [] d.k = "Alias"   -> size_of_type(store, d.to)
      [] d.k = "Function" -> PtrSize
      [] OTHER           -> Unreachable

\* llvm_ty of an enum: the packed struct { i8, [max x i8] }, or { i8 } alone
\* when max = 0; given as the list of its members' byte sizes
llvm_ty_enum(store, parts) ==
    LET max == SizeMax(store, parts) IN
    IF max > 0 THEN << 1, max >> ELSE << 1 >>

\* llvm_ty: the number of bytes the lowered type occupies. An enum is the
\* packed struct of its discriminant byte and its payload array; a struct has
\* the members that are not void (one field here, so no padding); void and
\* a placeholder occupy nothing
RECURSIVE LlvmBytes(_, _)
RECURSIVE LlvmBytesSum(_, _)
LlvmBytesSum(store, fields) ==
    IF fields = << >> THEN 0
    ELSE LlvmBytes(store, Head(fields)[1]) + LlvmBytesSum(store, Tail(fields))

LlvmBytes(store, ty) ==
    IF At(store, ty).data.k = "Integer" THEN At(store, ty).data.width \div 8
    ELSE IF At(store, ty).data.k = "Bool" THEN 1
    ELSE IF At(store, ty).data.k = "Float"
    THEN (IF At(store, ty).data.doublewide THEN 8 ELSE 4)
    ELSE IF At(store, ty).data.k = "Alias" THEN LlvmBytes(store, At(store, ty).data.to)
    ELSE IF At(store, ty).data.k \in {"Pointer", "Function"} THEN PtrSize
    ELSE IF At(store, ty).data.k = "Enum"
    THEN 1 + SizeMax(store, At(store, ty).data.parts)
    ELSE IF At(store, ty).data.k = "Struct"
    THEN LlvmBytesSum(store, At(store, ty).data.fields)
    ELSE 0

(***************************************************************************)
(* SpecCtx: the operations of the IR context                               *)
(***************************************************************************)
\* ids that the inputs of new_type may mention: a few primitives and every
\* type added since construction that is not a placeholder
PrimOperands == {I32, UNIT}

OperandIds(store) ==
    PrimOperands \cup
    {i \in 12..(Len(store) - 1) : At(store, i).data.k # "Invalid"}

MaxParts == 2        \* variants of an enum, fields of a struct

SeqsUpTo(S, n) == UNION {[1..m -> S] : m \in 0..n}

\* the TypeData values offered to new_type
TypeDataOver(ids) ==
    {Pointer(t) : t \in ids \cup {U8}}
    \cup {Alias(t) : t \in ids}
    \cup {Enum(NoName, ps) : ps \in SeqsUpTo(ids, MaxParts)}
    \cup {Struct(n, << <<t, "x">> >>) : n \in {NoName, "S"}, t \in ids}

\* the cast engine at rest
\* Option<T>
None    == [k |-> "None"]
Some(x) == [k |-> "Some", v |-> x]

\* LlvmCodeGenerator::new: the generator before any codegen_module call
GenNew ==
    /\ llvm_funs = {}
    /\ protos = << >>
    /\ codegened_funs = {}
    /\ current_scope = << << >> >>
    /\ current_fun = None
    /\ phi_data = None
    /\ continue_bb = None
    /\ break_bb = None
    /\ placed_terminator = FALSE
    /\ diags = << >>
    /\ blocks = << >>
    /\ insert_block = None
    /\ nalloca = 0
    /\ phis = {}
    /\ pc = "idle"
    /\ root = 0
    /\ work = << >>
    /\ lowered = << >>
    /\ ncalls = 0

\* no generator is at work
GenIdle ==
    /\ funs = << >>
    /\ GenNew

CastIdle ==
    /\ expr = << >>
    /\ code = << >>
    /\ outv = << >>
    /\ cpc = "idle"
    /\ ip = 0
    /\ regs = << >>
    /\ mem = << >>

\* no get_def call is at work
DefIdle ==
    /\ dmod = 0
    /\ dpath = << >>
    /\ dres = None

\* the process holds no second context
OneCtx == types2 = << >>

InitCtx ==
    /\ types = SparkCtxNew
    /\ irtypes = IrContextNew
    /\ nfuns = 0
    /\ nmodules = 1
    /\ COUNT = 0
    /\ calls = << >>
    /\ CastIdle
    /\ GenIdle
    /\ DefIdle
    /\ OneCtx

\* SparkCtx::new_type(data)
NewType ==
    /\ Len(types) < 12 + MaxNewTypes
    /\ \E d \in TypeDataOver(OperandIds(types)) :
          LET r == new_type(types, d) IN
          /\ types' = r.store
          /\ calls' = Append(calls, [data |-> d, id |-> r.id,
                                     grew |-> Len(r.store) > Len(types)])
    /\ UNCHANGED <<irtypes, nfuns, nmodules, COUNT, castVars, defVars, types2, genVars>>

\* SparkCtx::new_empty_type()
NewEmptyType ==
    /\ Len(types) < 12 + MaxNewTypes
    /\ COUNT' = COUNT + 1
    /\ types' = new_type(types, Invalid(COUNT')).store
    /\ UNCHANGED <<irtypes, nfuns, nmodules, calls, castVars, defVars, types2, genVars>>

\* SparkCtx::new_fun(name, ty, arg_names)
NewFun ==
    /\ nfuns + (nmodules - 1) < MaxArena
    /\ nfuns' = nfuns + 1
    /\ UNCHANGED <<types, irtypes, nmodules, COUNT, calls, castVars, defVars, types2, genVars>>

\* SparkCtx::new_module(name, file)
NewModule ==
    /\ nfuns + (nmodules - 1) < MaxArena
    /\ nmodules' = nmodules + 1
    /\ UNCHANGED <<types, irtypes, nfuns, COUNT, calls, castVars, defVars, types2, genVars>>

NextCtx == NewType \/ NewEmptyType \/ NewFun \/ NewModule

SpecCtx == InitCtx /\ [][NextCtx]_vars

(***************************************************************************)
(* Claims about the IR context (checked under SpecCtx)                     *)
(***************************************************************************)
TypeIds == 0..(Len(types) - 1)

IsNamedStruct(d) == d.k = "Struct" /\ d.name # NoName

\* C3: for any TypeData d that is not a named struct, two calls new_type(d)
\* on the same context return the same TypeId, and the second call adds no
\* entry to the type store.
C3_InternIdempotent ==
    \A i, j \in 1..Len(calls) :
        (i < j /\ calls[i].data = calls[j].data /\ ~IsNamedStruct(calls[i].data))
            => (calls[j].id = calls[i].id /\ ~calls[j].grew)

\* the order of the primitives that the claim states
PrimitiveOrder ==
    << Integer(TRUE, 8),  Integer(TRUE, 16),  Integer(TRUE, 32),  Integer(TRUE, 64),
       Integer(FALSE, 8), Integer(FALSE, 16), Integer(FALSE, 32), Integer(FALSE, 64),
       Float(FALSE), Float(TRUE), BoolT, UnitT >>

SparkAnchored ==
    /\ Len(types) >= 12
    /\ \A i \in 0..11 : At(types, i) = Type(i, PrimitiveOrder[i + 1])
    /\ At(types, I8).data   = Integer(TRUE, 8)
    /\ At(types, I16).data  = Integer(TRUE, 16)
    /\ At(types, I32).data  = Integer(TRUE, 32)
    /\ At(types, I64).data  = Integer(TRUE, 64)
    /\ At(types, U8).data   = Integer(FALSE, 8)
    /\ At(types, U16).data  = Integer(FALSE, 16)
    /\ At(types, U32).data  = Integer(FALSE, 32)
    /\ At(types, U64).data  = Integer(FALSE, 64)
    /\ At(types, F32).data  = Float(FALSE)
    /\ At(types, F64).data  = Float(TRUE)
    /\ At(types, BOOL).data = BoolT
    /\ At(types, UNIT).data = UnitT

IrAnchored ==
    /\ Len(irtypes) = 12
    /\ \A i \in 0..11 : At(irtypes, i) = PrimitiveOrder[i + 1]
    /\ At(irtypes, IrI8)   = Integer(TRUE, 8)
    /\ At(irtypes, IrI16)  = Integer(TRUE, 16)
    /\ At(irtypes, IrI32)  = Integer(TRUE, 32)
    /\ At(irtypes, IrI64)  = Integer(TRUE, 64)
    /\ At(irtypes, IrU8)   = Integer(FALSE, 8)
    /\ At(irtypes, IrU16)  = Integer(FALSE, 16)
    /\ At(irtypes, IrU32)  = Integer(FALSE, 32)
    /\ At(irtypes, IrU64)  = Integer(FALSE, 64)
    /\ At(irtypes, IrF32)  = Float(FALSE)
    /\ At(irtypes, IrF64)  = Float(TRUE)
    /\ At(irtypes, IrBOOL) = BoolT
    /\ At(irtypes, IrUNIT) = UnitT

\* C4: right after construction a context's type store holds exactly the 12
\* primitives, index i holding the i-th of I8,I16,I32,I64,U8,U16,U32,U64,
\* F32,F64,Bool,Unit; every named constant indexes the type of its name;
\* and this stays true whatever is added to the context afterwards.
C4_PrimitiveAnchoring ==
    /\ (calls = << >> /\ COUNT = 0 => Len(types) = 12)
    /\ SparkAnchored
    /\ IrAnchored

\* the part of C4 that concerns SparkCtx alone
C4_SparkCtxAnchored == (calls = << >> /\ COUNT = 0 => Len(types) = 12) /\ SparkAnchored

EnumIds == {t \in TypeIds : At(types, t).data.k = "Enum"}

\* the largest size among the variants, computed from the variants' sizes
MaxVariantSize(parts) ==
    IF parts = << >> THEN 0
    ELSE CHOOSE m \in {size_of_type(types, parts[i]) : i \in 1..Len(parts)} :
            \A i \in 1..Len(parts) : size_of_type(types, parts[i]) <= m

\* C5: the byte size computed for an enum type with variant list V is
\* 1 + max(size(v) for v in V), and it is 1 when V is empty or every
\* variant is zero-sized.
C5_EnumSize ==
    \A t \in EnumIds :
        LET parts == At(types, t).data.parts IN
        /\ size_of_type(types, t) = 1 + MaxVariantSize(parts)
        /\ (MaxVariantSize(parts) = 0 => size_of_type(types, t) = 1)

AliasIds == {t \in TypeIds : At(types, t).data.k = "Alias"}

\* C8: unwrap_alias follows Alias links until a non-alias type is reached:
\* over an acyclic chain of any length it ends, its result is never an
\* Alias type, and unwrap_alias(alias(T)) = unwrap_alias(T).
C8_AliasTransparency ==
    \A t \in TypeIds :
        LET u == unwrap_alias(types, t) IN
        /\ u \in TypeIds
        /\ At(types, u).data.k # "Alias"
        /\ (t \in AliasIds => u = unwrap_alias(types, At(types, t).data.to))

\* an alias of an alias of a non-alias type has been unwrapped
C8_Witness ==
    \E t \in AliasIds :
        /\ At(types, t).data.to \in AliasIds
        /\ At(types, At(types, t).data.to).data.to \notin AliasIds
        /\ unwrap_alias(types, t) = At(types, At(types, t).data.to).data.to

(***************************************************************************)
(* Cast engine (astgen.rs: gen_expr, gen_lval, gen_cast) and the           *)
(* semantics of the instructions it emits                                  *)
(***************************************************************************)
\* A value is the sequence of its bits, least significant first.
Zeros(n) == [i \in 1..n |-> 0]

\* build_int_z_extend / build_int_s_extend / build_int_truncate
ZExt(v, w)  == v \o Zeros(w - Len(v))
SExt(v, w)  == v \o [i \in 1..(w - Len(v)) |-> v[Len(v)]]
Trunc(v, w) == SubSeq(v, 1, w)

\* expressions: a literal of a type, or cast<to>(rhs)
Lit(ty, v)    == [k |-> "Lit", ty |-> ty, v |-> v]
Cast(to, rhs) == [k |-> "Cast", to |-> to, rhs |-> rhs]

\* ast_type of the expressions above
ast_type(e) == IF e.k = "Cast" THEN e.to ELSE e.ty

\* llvm_ty: the number of bits of the lowered type; 0 for void (not a basic
\* type)
RECURSIVE LlvmBits(_, _)
LlvmBits(store, ty) ==
    LET d == At(store, ty).data IN
    CASE d.k = "Integer" -> d.width
      [] d.k = "Bool"    -> 1
      [] d.k = "Float"   -> IF d.doublewide THEN 64 ELSE 32
      [] d.k = "Alias"   -> LlvmBits(store, d.to)
      [] d.k = "Pointer" -> 8 * PtrSize
      [] d.k = "Function" -> 8 * PtrSize
      [] d.k = "Enum"    -> 8 + 8 * SizeMax(store, d.parts)
      [] OTHER           -> 0

\* require_basictype: void is refused
IsBasic(store, ty) == LlvmBits(store, ty) > 0

\* position(|part| *part == ty): 0-based index of ty in parts, -1 for None
Position(parts, ty) ==
    IF \E i \in 1..Len(parts) : parts[i] = ty
    THEN (CHOOSE i \in 1..Len(parts) :
             parts[i] = ty /\ \A j \in 1..(i - 1) : parts[j] # ty) - 1
    ELSE -1

\* the builder: emitted instructions and the number of registers named
NewBuilder == [code |-> << >>, nreg |-> 0]
Emit(b, ins) == [code |-> Append(b.code, ins), nreg |-> b.nreg]
\* an instruction that defines a fresh register
EmitDef(b, ins) ==
    [code |-> Append(b.code, [ins EXCEPT !.dst = b.nreg + 1]), nreg |-> b.nreg + 1]

ConstOp(v) == <<"c", v>>
RegOp(b)   == <<"r", b.nreg>>
Ok(b, val) == [ok |-> TRUE, b |-> b, val |-> val]
Err(b)     == [ok |-> FALSE, b |-> b, val |-> << >>]

\* const_int(idx, false) of i8
ByteOf(n) == [i \in 1..8 |-> (n \div (2 ^ (i - 1))) % 2]

\* the (Integer, Integer) arm without its truncation: a cast to a narrower
\* type passes the value on unchanged
IntCastOpNoTrunc(from_width, to_sign, to_width) ==
    IF from_width >= to_width THEN "none"
    ELSE IF ~to_sign THEN "zext"
    ELSE "sext"

\* gen_cast, the (Integer, Integer) arm: the instruction chosen for a cast
\* from from_width to to_width / to_sign
IntCastOp(from_width, to_sign, to_width) ==
    IF from_width = to_width THEN "none"
    ELSE IF from_width < to_width /\ ~to_sign THEN "zext"
    ELSE IF from_width < to_width /\ to_sign THEN "sext"
    ELSE "trunc"

RECURSIVE gen_expr(_, _, _)
RECURSIVE gen_lval(_, _, _)
RECURSIVE gen_cast(_, _, _, _)

\* gen_lval: an expression that is no place (literal, cast, ...) is emitted
\* and a stack slot of its type is allocated and returned
gen_lval(store, b, e) ==
    LET r == gen_expr(store, b, e) IN
    IF ~r.ok THEN r
    ELSE LET b1 == EmitDef(r.b, [op |-> "alloca", dst |-> 0,
                                 bits |-> LlvmBits(store, ast_type(e))])
         IN Ok(b1, RegOp(b1))

gen_cast(store, b, to_ty, rhs) ==
    LET rhs_ty == ast_type(rhs)
        to     == At(store, to_ty).data
        from   == At(store, rhs_ty).data
        uto    == At(store, unwrap_alias(store, to_ty)).data
        ufrom  == At(store, unwrap_alias(store, rhs_ty)).data
    IN
    IF unwrap_alias(store, to_ty) = unwrap_alias(store, rhs_ty)
    THEN gen_expr(store, b, rhs)
    ELSE IF uto.k = "Enum" THEN
        LET idx == Position(uto.parts, rhs_ty) IN
        IF idx < 0 THEN Err(b)
        ELSE IF ~IsBasic(store, to_ty) THEN Err(b)
        ELSE
          LET b1 == EmitDef(b, [op |-> "alloca", dst |-> 0,
                                bits |-> LlvmBits(store, to_ty)])
              lit == RegOp(b1)
              b2 == EmitDef(b1, [op |-> "gep", dst |-> 0, base |-> lit, field |-> 0])
              b3 == Emit(b2, [op |-> "store", ptr |-> RegOp(b2),
                              val |-> ConstOp(ByteOf(idx))])
          IN
          IF size_of_type(store, rhs_ty) # 0 THEN
            LET r == gen_expr(store, b3, rhs) IN
            IF ~r.ok THEN r
            ELSE IF ~IsBasic(store, rhs_ty) THEN Err(r.b)
            ELSE
              LET b4 == EmitDef(r.b, [op |-> "gep", dst |-> 0, base |-> lit, field |-> 1])
                  b5 == EmitDef(b4, [op |-> "bitcast", dst |-> 0, src |-> RegOp(b4)])
                  b6 == Emit(b5, [op |-> "store", ptr |-> RegOp(b5), val |-> r.val])
                  b7 == EmitDef(b6, [op |-> "load", dst |-> 0, ptr |-> lit,
                                     bits |-> LlvmBits(store, to_ty)])
              IN Ok(b7, RegOp(b7))
          ELSE
            LET b4 == EmitDef(b3, [op |-> "load", dst |-> 0, ptr |-> lit,
                                   bits |-> LlvmBits(store, to_ty)])
            IN Ok(b4, RegOp(b4))
    ELSE IF ufrom.k = "Enum" THEN
        IF Position(ufrom.parts, to_ty) < 0 THEN Err(b)
        ELSE
          LET r == gen_lval(store, b, rhs) IN
          IF ~r.ok THEN r
          ELSE IF ~IsBasic(store, to_ty) THEN Err(r.b)
          ELSE
            LET b1 == EmitDef(r.b, [op |-> "gep", dst |-> 0, base |-> r.val, field |-> 1])
                b2 == EmitDef(b1, [op |-> "bitcast", dst |-> 0, src |-> RegOp(b1)])
                b3 == EmitDef(b2, [op |-> "load", dst |-> 0, ptr |-> RegOp(b2),
                                   bits |-> LlvmBits(store, to_ty)])
            IN Ok(b3, RegOp(b3))
    ELSE
        LET r == gen_expr(store, b, rhs) IN
        IF ~r.ok THEN r
        ELSE IF from.k = "Integer" /\ to.k = "Integer" THEN
            LET op == IntCastOp(from.width, to.signed, to.width) IN
            IF op = "none" THEN r
            ELSE LET b1 == EmitDef(r.b, [op |-> op, dst |-> 0, src |-> r.val,
                                         bits |-> to.width])
                 IN Ok(b1, RegOp(b1))
        ELSE Err(r.b)

gen_expr(store, b, e) ==
    IF e.k = "Cast" THEN gen_cast(store, b, e.to, e.rhs)
    ELSE Ok(b, ConstOp(e.v))

(***************************************************************************)
(* Execution of the emitted instructions                                   *)
(***************************************************************************)
\* the value of an operand: a constant or a register
Val(rs, o) == IF o[1] = "c" THEN o[2] ELSE rs[o[2]]

PtrTo(slot, off) == [slot |-> slot, off |-> off]

\* the bits of slot contents m covered by a value of n bits at offset off
InBounds(m, off, n)  == off + n <= Len(m)
ReadBits(m, off, n)  == SubSeq(m, off + 1, off + n)
WriteBits(m, off, v) ==
    [i \in 1..Len(m) |-> IF i > off /\ i <= off + Len(v) THEN v[i - off] ELSE m[i]]

\* what an uninitialised stack slot may hold
UndefFills == {0, 1}
UndefBits(n, fill) == [i \in 1..n |-> fill]

\* one instruction, executed on (regs, mem); fill decides the contents of
\* a slot that alloca creates
ExecIns(ins, fill) ==
    CASE ins.op = "alloca" ->
            /\ mem' = Append(mem, UndefBits(ins.bits, fill))
            /\ regs' = Append(regs, PtrTo(Len(mem) + 1, 0))
            /\ cpc' = cpc
      [] ins.op = "gep" ->
            LET p == Val(regs, ins.base) IN
            /\ regs' = Append(regs, PtrTo(p.slot, p.off + (IF ins.field = 0 THEN 0 ELSE 8)))
            /\ UNCHANGED <<mem, cpc>>
      [] ins.op = "bitcast" ->
            /\ regs' = Append(regs, Val(regs, ins.src))
            /\ UNCHANGED <<mem, cpc>>
      [] ins.op = "store" ->
            LET p == Val(regs, ins.ptr)
                v == Val(regs, ins.val) IN
            IF InBounds(mem[p.slot], p.off, Len(v))
            THEN /\ mem' = [mem EXCEPT ![p.slot] = WriteBits(@, p.off, v)]
                 /\ UNCHANGED <<regs, cpc>>
            ELSE /\ cpc' = "oob"
                 /\ UNCHANGED <<regs, mem>>
      [] ins.op = "load" ->
            LET p == Val(regs, ins.ptr) IN
            IF InBounds(mem[p.slot], p.off, ins.bits)
            THEN /\ regs' = Append(regs, ReadBits(mem[p.slot], p.off, ins.bits))
                 /\ UNCHANGED <<mem, cpc>>
            ELSE /\ cpc' = "oob"
                 /\ UNCHANGED <<regs, mem>>
      [] ins.op = "zext" ->
            /\ regs' = Append(regs, ZExt(Val(regs, ins.src), ins.bits))
            /\ UNCHANGED <<mem, cpc>>
      [] ins.op = "sext" ->
            /\ regs' = Append(regs, SExt(Val(regs, ins.src), ins.bits))
            /\ UNCHANGED <<mem, cpc>>
      [] ins.op = "trunc" ->
            /\ regs' = Append(regs, Trunc(Val(regs, ins.src), ins.bits))
            /\ UNCHANGED <<mem, cpc>>

(***************************************************************************)
(* SpecCast: gen_expr applied to bounded cast expressions, and the run of  *)
(* the code it emits                                                       *)
(***************************************************************************)
LowBits == 2     \* independent low bits of the sampled integer values

\* sampled values of w bits: every setting of the low bits, of the sign bit
\* and of the bits between them
BitPatterns(w) ==
    {[i \in 1..w |-> IF i <= LowBits THEN low[i] ELSE IF i = w THEN top ELSE mid] :
        low \in [1..LowBits -> {0, 1}], top \in {0, 1}, mid \in {0, 1}}

IntTypes == {I8, I16, I32, I64, U8, U16, U32, U64}
WidthOf(t) == At(SparkCtxNew, t).data.width

\* the context the expressions are typed in: the primitives, an enum
\* E = { U8, Bool, Unit } (id 12) and an alias of E (id 13)
CastEnumNew  == new_type(SparkCtxNew, Enum(NoName, <<U8, BOOL, UNIT>>))
CastEnum     == CastEnumNew.id
CastAliasNew == new_type(CastEnumNew.store, Alias(CastEnum))
CastAlias    == CastAliasNew.id
CastStore    == CastAliasNew.store

ValuesOf(t) == IF t = BOOL THEN {<<0>>, <<1>>} ELSE BitPatterns(WidthOf(t))

\* cast<t1>(x: t0)
IntCasts ==
    UNION {{Cast(t1, Lit(t0, v)) : t1 \in IntTypes, v \in ValuesOf(t0)} : t0 \in IntTypes}

\* cast<t2>(cast<t1>(x: t0)) with t2 as wide as t0
IntRoundTrips ==
    UNION {{Cast(p[2], Cast(t1, Lit(p[1], v))) : t1 \in IntTypes, v \in ValuesOf(p[1])} :
           p \in {q \in IntTypes \X IntTypes : WidthOf(q[1]) = WidthOf(q[2])}}

\* cast<E>(x: T) and cast<T>(cast<E>(x: T)) for the variants T of E that
\* have values, E given directly or through its alias
EnumCasts ==
    UNION {{Cast(e, Lit(t, v)) : e \in {CastEnum, CastAlias}, v \in ValuesOf(t)} :
           t \in {U8, BOOL}}

EnumRoundTrips == {Cast(ast_type(c.rhs), c) : c \in EnumCasts}

CastExprs == IntCasts \cup IntRoundTrips \cup EnumCasts \cup EnumRoundTrips

InitCast ==
    /\ types = CastStore
    /\ irtypes = IrContextNew
    /\ nfuns = 0
    /\ nmodules = 1
    /\ COUNT = 0
    /\ calls = << >>
    /\ expr \in CastExprs
    /\ code = << >>
    /\ outv = << >>
    /\ cpc = "start"
    /\ ip = 0
    /\ regs = << >>
    /\ mem = << >>
    /\ GenIdle
    /\ DefIdle
    /\ OneCtx

\* gen_expr on the expression: the code is emitted, or a diagnostic returned
Lower ==
    /\ cpc = "start"
    /\ LET r == gen_expr(types, NewBuilder, expr) IN
       /\ code' = r.b.code
       /\ outv' = r.val
       /\ cpc' = IF r.ok THEN "run" ELSE "error"
       /\ ip' = 1
    /\ UNCHANGED <<ctxVars, genVars, defVars, types2, expr, regs, mem>>

\* the next emitted instruction is executed
ExecStep ==
    /\ cpc = "run"
    /\ ip <= Len(code)
    /\ \E fill \in UndefFills : ExecIns(code[ip], fill)
    /\ ip' = ip + 1
    /\ UNCHANGED <<ctxVars, genVars, defVars, types2, expr, code, outv>>

\* the value of the expression is available
Finish ==
    /\ cpc = "run"
    /\ ip > Len(code)
    /\ cpc' = "done"
    /\ UNCHANGED <<ctxVars, genVars, defVars, types2, expr, code, outv, ip, regs, mem>>

NextCast == Lower \/ ExecStep \/ Finish

SpecCast == InitCast /\ [][NextCast]_vars

\* the value the expression evaluated to
Result == Val(regs, outv)

(***************************************************************************)
(* Claims about casts (checked under SpecCast)                             *)
(***************************************************************************)
IsIntLit(e)  == e.k = "Lit" /\ e.ty \in IntTypes
IsIntCast(e) == e.k = "Cast" /\ e.to \in IntTypes /\ IsIntLit(e.rhs)
IsIntRoundTrip(e) ==
    /\ e.k = "Cast" /\ e.to \in IntTypes
    /\ e.rhs.k = "Cast" /\ e.rhs.to \in IntTypes
    /\ IsIntLit(e.rhs.rhs)
    /\ WidthOf(e.to) = WidthOf(e.rhs.rhs.ty)

IsEnumType(t) == At(types, unwrap_alias(types, t)).data.k = "Enum"
IsEnumRoundTrip(e) ==
    /\ e.k = "Cast" /\ e.rhs.k = "Cast" /\ e.rhs.rhs.k = "Lit"
    /\ IsEnumType(e.rhs.to)
    /\ e.to = e.rhs.rhs.ty

\* C6: for any enum E and any variant type T of E, cast<T>(cast<E>(x)) for x
\* of type T evaluates to x in the emitted code.
C6_EnumRoundTrip ==
    (cpc = "done" /\ IsEnumRoundTrip(expr)) => Result = expr.rhs.rhs.v

\* C7: for integer widths W < W' and every combination of signedness, casting a
\* W-bit value to W' bits and the result back to W bits yields the original
\* value; a cast between integer types of equal width leaves the bits unchanged.
C7_IntRoundTrip ==
    /\ (cpc = "done" /\ IsIntRoundTrip(expr)
            /\ WidthOf(expr.to) < WidthOf(expr.rhs.to))
        => Result = expr.rhs.rhs.v
    /\ (cpc = "done" /\ IsIntCast(expr) /\ WidthOf(expr.to) = WidthOf(expr.rhs.ty))
        => Result = expr.rhs.v

\* a negative 8-bit value went through sign extension to 64 bits and back
C7_Witness ==
    /\ cpc = "done" /\ IsIntRoundTrip(expr)
    /\ expr.rhs.rhs.ty = I8 /\ expr.rhs.to = I64 /\ expr.to = U8
    /\ expr.rhs.rhs.v[8] = 1
    /\ \E i \in 1..Len(code) : code[i].op = "sext"
    /\ \E i \in 1..Len(code) : code[i].op = "trunc"
    /\ Result = expr.rhs.rhs.v

(***************************************************************************)
(* The AST handed to the backend (Ast<TypeId>)                             *)
(***************************************************************************)
Break                  == [k |-> "Break"]
Continue               == [k |-> "Continue"]
PhiExpr(e)             == [k |-> "PhiExpr", phi |-> e]
Return(e)              == [k |-> "Return", returned |-> e]
Block(body)            == [k |-> "Block", body |-> body]
\* else_expr: None, Some(Else(body)) or Some(ElseIf(if_expr))
IfExpr(cond, body, else_expr) ==
    [k |-> "IfExpr", cond |-> cond, body |-> body, else_expr |-> else_expr]
Else(body)             == [k |-> "Else", body |-> body]
ElseIf(if_expr)        == [k |-> "ElseIf", if_expr |-> if_expr]
\* cases: a sequence of <<TypeId, statement>>
Match(matched, cases)  == [k |-> "Match", matched |-> matched, cases |-> cases]
FunCall(called, args)  == [k |-> "FunCall", called |-> called, args |-> args]
\* path: the sequence of the symbols of a SymbolPath
Access(path)           == [k |-> "Access", path |-> path]
Assignment(lhs, rhs)   == [k |-> "Assignment", lhs |-> lhs, rhs |-> rhs]
\* ty: None or Some(TypeId)
VarDeclaration(name, ty) == [k |-> "VarDeclaration", name |-> name, ty |-> ty]

(***************************************************************************)
(* The module tree and the definitions in scope                            *)
(***************************************************************************)
\* SparkDef and ScopeDef
FunDef(fun)    == [k |-> "FunDef", fun |-> fun]
ModDef(mod)    == [k |-> "ModDef", mod |-> mod]
TypeDef(ty)    == [k |-> "TypeDef", ty |-> ty]
Value(ty, ptr) == [k |-> "Value", ty |-> ty, ptr |-> ptr]

\* struct Function { name, ty, arg_names, body }
FunctionOf(name, ty, arg_names, body) ==
    [name |-> name, ty |-> ty, arg_names |-> arg_names, body |-> body]

\* SparkCtx.modules: module "root" defines f, g, the module sub, which
\* defines h, and the type t; defs lists (name, def) in definition order
Modules ==
    << [name |-> "root",
        defs |-> << <<"f", FunDef(0)>>, <<"g", FunDef(1)>>, <<"sub", ModDef(1)>>,
                    <<"t", TypeDef(CastEnum)>> >>],
       [name |-> "sub",
        defs |-> << <<"h", FunDef(2)>> >>] >>

ModIds == 0..(Len(Modules) - 1)

\* defs.get(name) of a module
ModGet(module, name) ==
    LET defs == At(Modules, module).defs IN
    IF \E i \in 1..Len(defs) : defs[i][1] = name
    THEN Some(defs[CHOOSE i \in 1..Len(defs) : defs[i][1] = name][2])
    ELSE None

\* Result<SparkDef, Symbol> of get_def: Some(def) stands for Ok(def),
\* Unresolved(name) for Err(name), and Unimplemented for the panic of
\* unimplemented!() and expect()
Unresolved(name) == [k |-> "None", name |-> name]
Unimplemented    == [k |-> "panic"]

\* PathIter::is_final: one segment is left
is_final(parts) == Len(parts) = 1

\* def.copied().ok_or(name)
OkOr(def, name) == IF def.k = "Some" THEN def ELSE Unresolved(name)

RECURSIVE get_def_impl(_, _)

\* get_def_impl with the error naming the segment after the failing one
DefInNext(def, name, rest) ==
    IF def.k = "Some" /\ def.v.k = "ModDef"
    THEN get_def_impl(def.v.mod, rest)
    ELSE Unresolved(Head(rest))

\* get_def_impl, a segment before the last: def is what the module defines
\* for it; a module is descended into, anything else is Err(name), but for
\* a type followed by the last segment, which is not implemented
DefIn(def, name, rest) ==
    IF def.k = "Some" /\ def.v.k = "ModDef"
    THEN get_def_impl(def.v.mod, rest)
    ELSE IF def.k = "Some" /\ is_final(rest) /\ def.v.k = "TypeDef"
    THEN Unimplemented
    ELSE Unresolved(name)

\* SparkCtx::get_def_impl: resolve the rest of a path from a module
get_def_impl(module, parts) ==
    IF parts = << >> THEN Unimplemented
    ELSE IF Len(parts) = 1 THEN OkOr(ModGet(module, parts[1]), parts[1])
    ELSE DefIn(ModGet(module, parts[1]), parts[1], Tail(parts))

\* SparkCtx::get_def
get_def(module, path) == get_def_impl(module, path)

\* ScopeMap: push_layer, pop_layer (the bottom layer stays), define (in the
\* topmost layer) and get (the topmost layer that defines the name)
push_layer(scope) == Append(scope, << >>)
pop_layer(scope) ==
    IF Len(scope) > 1 THEN SubSeq(scope, 1, Len(scope) - 1) ELSE scope
define(scope, name, def) ==
    [scope EXCEPT ![Len(scope)] = Append(@, <<name, def>>)]
LayerGet(layer, name) ==
    IF \E i \in 1..Len(layer) : layer[i][1] = name
    THEN Some(layer[CHOOSE i \in 1..Len(layer) :
                       /\ layer[i][1] = name
                       /\ \A j \in (i + 1)..Len(layer) : layer[j][1] # name][2])
    ELSE None
ScopeGet(scope, name) ==
    IF \E l \in 1..Len(scope) : LayerGet(scope[l], name).k = "Some"
    THEN LayerGet(scope[CHOOSE l \in 1..Len(scope) :
                           /\ LayerGet(scope[l], name).k = "Some"
                           /\ \A m \in (l + 1)..Len(scope) :
                                 LayerGet(scope[m], name).k = "None"], name)
    ELSE None

\* find_in_scope, the result of get_def_impl: map(ScopeDef::Def) and
\* map_err(the diagnostic)
DefOrDiag(r) == IF r.k = "None" THEN None ELSE r

\* find_in_scope on the definition of the first symbol of the path: None
\* stands for the Err diagnostics
FoundIn(def, path) ==
    IF def.k = "None" THEN None
    ELSE IF Len(path) = 1 THEN def
    ELSE IF def.v.k = "ModDef" THEN DefOrDiag(get_def_impl(def.v.mod, Tail(path)))
    ELSE None

\* find_in_scope
find_in_scope(g, path) == FoundIn(ScopeGet(g.current_scope, path[1]), path)

(***************************************************************************)
(* The builder over basic blocks                                           *)
(***************************************************************************)
\* an emitted instruction; line is the source line of astgen.rs that built it
Ins(op, a, b, line) == [op |-> op, a |-> a, b |-> b, line |-> line]

append_basic_block(g, name) ==
    [g EXCEPT !.blocks = Append(@, [fun |-> g.current_fun.v, name |-> name,
                                    ins |-> << >>])]
\* the block appended last
LastBlock(g) == Len(g.blocks)

position_at_end(g, bb) == [g EXCEPT !.insert_block = Some(bb)]
get_insert_block(g) == g.insert_block.v

Build(g, ins) == [g EXCEPT !.blocks[g.insert_block.v].ins = Append(@, ins)]

\* build_alloca: the new slot is g.nalloca + 1
build_alloca(g, name, line) ==
    [Build(g, Ins("alloca", g.nalloca + 1, name, line)) EXCEPT !.nalloca = @ + 1]
LastAlloca(g) == g.nalloca

\* struct PhiData { break_bb, alloca, phi_ty }
PhiData(bb, alloca, phi_ty) ==
    [break_bb |-> bb, alloca |-> alloca, phi_ty |-> phi_ty]

\* CompilerRes<T> of a lowering step together with the generator it leaves:
\* st is "ok", "err" (a diagnostic is returned) or "panic"
Res(st, g, val) == [st |-> st, g |-> g, val |-> val]

(***************************************************************************)
(* The statement lowerer (codegen/llvm/astgen.rs) over a generator g       *)
(*                                                                         *)
(* A function of the lowerer is an operator from the generator and the     *)
(* AST to Res(st, g, val).  Where a function goes on after a call that may *)
(* fail (the ? operator), what follows the call is an operator of its own  *)
(* that takes the call's result.                                           *)
(***************************************************************************)
\* operands
Ptr(n)   == [k |-> "ptr", id |-> n]     \* PointerValue of a stack slot
FnPtr(f) == [k |-> "fn", fun |-> f]     \* pointer to a backend function
AnyVal   == [k |-> "val"]               \* any other BasicValueEnum

\* Option<PhiData>::map(|phi| phi.alloca)
AllocaOf(opt) == IF opt.k = "Some" THEN Some(opt.v.alloca) ELSE None

\* a result without its value
Unit(r) == Res(r.st, r.g, None)

\* the slot build_alloca has just made, as an operand
AllocaPtr(g1) == Res("ok", g1, Ptr(LastAlloca(g1)))

\* phi_node: the first phi statement among the statements of a body
phi_node(body) ==
    IF \E i \in 1..Len(body) : body[i].k = "PhiExpr"
    THEN Some(body[CHOOSE i \in 1..Len(body) :
                      /\ body[i].k = "PhiExpr"
                      /\ \A j \in 1..(i - 1) : body[j].k # "PhiExpr"])
    ELSE None

\* ast_type, FunCall: the return type of the called function type
CalledType(c) ==
    IF c.st # "ok" THEN c
    ELSE IF At(c.g.types, c.val).data.k = "Function"
    THEN Res("ok", c.g, At(c.g.types, c.val).data.return_ty)
    ELSE Res("err", c.g, None)

\* the context after new_type returned n
NewTypeRes(g, n) == Res("ok", [g EXCEPT !.types = n.store], n.id)

\* ast_type, Access: an access to a function makes a new function type
AccessType(g, def) ==
    IF def.k = "None" THEN Res("err", g, None)
    ELSE IF def.k = "panic" THEN Res("panic", g, None)
    ELSE CASE def.v.k = "FunDef" ->
                NewTypeRes(g, new_type(g.types, Function(At(g.funs, def.v.fun).ty)))
           [] def.v.k = "Value" -> Res("ok", g, def.v.ty)
           [] def.v.k = "TypeDef" /\ size_of_type(g.types, def.v.ty) = 0 ->
                Res("ok", g, def.v.ty)
           [] OTHER -> Res("err", g, None)

\* ast_type over the generator
RECURSIVE AstType(_, _)
AstType(g, ast) ==
    CASE ast.k = "Lit"  -> Res("ok", g, ast.ty)
      [] ast.k = "Cast" -> Res("ok", g, ast.to)
      [] ast.k = "FunCall" -> CalledType(AstType(g, ast.called))
      [] ast.k = "Access" -> AccessType(g, find_in_scope(g, ast.path))
      [] ast.k \in {"IfExpr", "Block"} ->
            IF phi_node(ast.body).k = "None" THEN Res("err", g, None)
            ELSE AstType(g, phi_node(ast.body).v)
      [] ast.k = "PhiExpr" -> AstType(g, ast.phi)
      [] ast.k = "Match" ->
            IF ast.cases = << >> THEN Res("err", g, None)
            ELSE AstType(g, ast.cases[1][2])
      [] ast.k = "VarDeclaration" ->
            IF ast.ty.k = "Some" THEN Res("ok", g, ast.ty.v)
            ELSE Res("err", g, None)
      [] OTHER -> Res("err", g, None)

\* ast_type of each argument in turn, stopping at the first Err
RECURSIVE AstTypes(_, _, _)
AstTypesNext(t, rest, acc) ==
    IF t.st # "ok" THEN t ELSE AstTypes(t.g, rest, Append(acc, t.val))
AstTypes(g, args, acc) ==
    IF args = << >> THEN Res("ok", g, acc)
    ELSE AstTypesNext(AstType(g, Head(args)), Tail(args), acc)

\* gen_access on the definition found in scope
AccessOf(g, def) ==
    IF def.k = "None" THEN Res("err", g, None)
    ELSE IF def.k = "panic" THEN Res("panic", g, None)
    ELSE CASE def.v.k = "FunDef" ->
                IF def.v.fun \in g.llvm_funs
                THEN Res("ok", g, FnPtr(def.v.fun))
                ELSE Res("panic", g, None)       \* self.llvm_funs[&fun]
           [] def.v.k = "Value" -> Res("ok", g, def.v.ptr)
           [] OTHER -> Res("err", g, None)

\* gen_access
gen_access(g, path) == AccessOf(g, find_in_scope(g, path))

\* The lowering functions call one another recursively: Call(fn, g, a) is
\* the call of the function named fn on the generator g with the arguments a
RECURSIVE Call(_, _, _)
RECURSIVE GenExprs(_, _)
RECURSIVE BodyLoop(_, _, _)
RECURSIVE MatchArms(_, _, _, _)

\* gen_expr, a construct: the load of its phi-alloca
LoadPhi(r) ==
    IF r.st # "ok" THEN r
    ELSE Res("ok", Build(r.g, Ins("load", r.val.id, "load_phi", 200)), AnyVal)

\* gen_expr, Access: a function is its own value, a variable is loaded
LoadVar(r) ==
    IF r.st # "ok" THEN r
    ELSE IF r.val.k = "fn" THEN r
    ELSE Res("ok", Build(r.g, Ins("load", r.val.id, "var_rval_load", 212)), AnyVal)

\* gen_expr, FunCall: a call that returns the unit type is not a value
CallValue(r) ==
    IF r.st # "ok" THEN r
    ELSE IF r.val.k = "Some" THEN Res("ok", r.g, r.val.v)
    ELSE Res("err", r.g, None)

\* gen_expr over the generator (a CastExpr is lowered by gen_cast above; the
\* bodies lowered here hold none)
GenExpr(g, ast) ==
    CASE ast.k \in {"IfExpr", "Block", "Match"} ->
            LoadPhi(Call("gen_lval", g, <<ast>>))
      [] ast.k = "Access" -> LoadVar(gen_access(g, ast.path))
      [] ast.k = "FunCall" ->
            CallValue(Call("gen_call", g, <<ast.called, ast.args>>))
      [] ast.k = "Lit" -> Res("ok", g, AnyVal)
      [] OTHER -> Res("err", g, None)

\* gen_expr of each argument in turn, stopping at the first Err
GenExprsNext(r, rest) == IF r.st # "ok" THEN r ELSE GenExprs(r.g, rest)
GenExprs(g, args) ==
    IF args = << >> THEN Res("ok", g, None)
    ELSE GenExprsNext(Call("gen_expr", g, <<Head(args)>>), Tail(args))

\* gen_lval, a construct: its phi-alloca, or an Err when it has none
SomePtr(r) ==
    IF r.st # "ok" THEN r
    ELSE IF r.val.k = "Some" THEN Res("ok", r.g, Ptr(r.val.v))
    ELSE Res("err", r.g, None)

\* gen_lval, any other expression: the value is computed and a fresh slot
\* "lvalue_alloca" is returned
LvalueAlloca(r) ==
    IF r.st # "ok" THEN r
    ELSE AllocaPtr(build_alloca(r.g, "lvalue_alloca", 930))

\* gen_lval over the generator
GenLval(g, ast) ==
    CASE ast.k = "Access" -> gen_access(g, ast.path)
      [] ast.k = "Block" -> SomePtr(Call("gen_block_ast", g, <<ast.body>>))
      [] ast.k = "Match" ->
            SomePtr(Call("gen_match_expr", g, <<ast.matched, ast.cases>>))
      [] ast.k = "IfExpr" -> SomePtr(Call("gen_if_expr", g, <<ast>>))
      [] OTHER -> LvalueAlloca(Call("gen_expr", g, <<ast>>))

\* gen_call, the call itself: Some(value), or None when the callee returns
\* the unit type
CallBuilt(a, callee, f) ==
    IF a.st # "ok" THEN a
    ELSE Res("ok", Build(a.g, Ins("call", callee, "fn_call", 1401)),
             IF IsBasic(a.g.types, f.return_ty) THEN Some(AnyVal) ELSE None)

\* gen_call, the arguments after the callee
CallCallee(c, f, args) ==
    IF c.st # "ok" THEN c ELSE CallBuilt(GenExprs(c.g, args), c.val, f)

\* gen_call, the check of the passed types against the expected ones
CallChecked(passed, f, called, args) ==
    IF passed.st # "ok" THEN passed
    ELSE IF \E i \in 1..Len(args) :
               unwrap_alias(passed.g.types, f.args[i])
                 # unwrap_alias(passed.g.types, passed.val[i])
    THEN Res("err", passed.g, None)
    ELSE CallCallee(Call("gen_expr", passed.g, <<called>>), f, args)

\* gen_call, the check of the callee's type and of the number of arguments
CallTyped(t, called, args) ==
    IF t.st # "ok" THEN t
    ELSE IF At(t.g.types, t.val).data.k # "Function" THEN Res("err", t.g, None)
    ELSE IF Len(At(t.g.types, t.val).data.args) # Len(args)
    THEN Res("err", t.g, None)
    ELSE CallChecked(AstTypes(t.g, args, << >>), At(t.g.types, t.val).data,
                     called, args)

\* gen_call
gen_call(g, called, args) == CallTyped(AstType(g, called), called, args)

\* a variable is declared: its slot is defined in the topmost scope layer
DeclareVar(g1, name, ty) ==
    Res("ok",
        [g1 EXCEPT !.current_scope =
            define(@, name, Value(ty, Ptr(LastAlloca(g1))))],
        Ptr(LastAlloca(g1)))

\* gen_stmt, Assignment: the store of the value
AssignStore(rhs, lhs_pv) ==
    IF rhs.st # "ok" THEN rhs
    ELSE Res("ok", Build(rhs.g, Ins("store", lhs_pv.id, "", 81)), None)

\* gen_stmt, Assignment: the value after the assignee
AssignLhs(lhs, ast) ==
    IF lhs.st # "ok" THEN lhs
    ELSE AssignStore(Call("gen_expr", lhs.g, <<ast.rhs>>), lhs.val)

\* gen_stmt, Assignment: the types are compared, then the assignee is a new
\* variable (declared before the value is lowered) or an lvalue
AssignLhsTyped(rhs_ty, lt, ast) ==
    IF lt.st # "ok" THEN lt
    ELSE IF lt.val # rhs_ty THEN Res("err", lt.g, None)
    ELSE IF ast.lhs.k = "VarDeclaration"
    THEN IF IsBasic(lt.g.types, lt.val)
         THEN AssignLhs(DeclareVar(build_alloca(lt.g, "var_dec_aloca", 63),
                                   ast.lhs.name, lt.val), ast)
         ELSE Res("err", lt.g, None)
    ELSE AssignLhs(Call("gen_lval", lt.g, <<ast.lhs>>), ast)

\* gen_stmt, Assignment: the assignee's type is the value's when it is a
\* declaration without a type
AssignTyped(rt, ast) ==
    IF rt.st # "ok" THEN rt
    ELSE IF ast.lhs.k = "VarDeclaration" /\ ast.lhs.ty.k = "None"
    THEN AssignLhsTyped(rt.val, rt, ast)
    ELSE AssignLhsTyped(rt.val, AstType(rt.g, ast.lhs), ast)

\* gen_stmt, Return: the built return
ReturnValue(e) ==
    IF e.st # "ok" THEN e
    ELSE Res("ok", Build(e.g, Ins("ret", "value", "", 130)), None)

\* gen_stmt, Return: the type is compared with the declared return type,
\* placed_terminator is set, and the value is lowered unless it is unit
ReturnTyped(t, ast) ==
    IF t.st # "ok" THEN t
    ELSE IF t.val # At(t.g.funs, t.g.current_fun.v).ty.return_ty
    THEN Res("err", t.g, None)
    ELSE IF At(t.g.funs, t.g.current_fun.v).ty.return_ty # UNIT
    THEN ReturnValue(Call("gen_expr", [t.g EXCEPT !.placed_terminator = TRUE],
                          <<ast.returned>>))
    ELSE Res("ok", Build([t.g EXCEPT !.placed_terminator = TRUE],
                         Ins("ret", "void", "", 132)), None)

\* gen_stmt, PhiExpr: the store into the phi-alloca and the branch to the
\* merge block of phi_data
PhiStore(e, pd) ==
    IF e.st # "ok" THEN e
    ELSE Res("ok",
             Build([Build(e.g, Ins("store", pd.alloca, "", 150))
                       EXCEPT !.placed_terminator = TRUE],
                   Ins("br", pd.break_bb, "", 153)),
             None)

\* gen_stmt, PhiExpr: the type of the value against the expected type
PhiTyped(t, pd, ast) ==
    IF t.st # "ok" THEN t
    ELSE IF t.val # pd.phi_ty THEN Res("err", t.g, None)
    ELSE PhiStore(Call("gen_expr", t.g, <<ast.phi>>), pd)

\* gen_stmt
gen_stmt(g, ast) ==
    CASE ast.k = "Block" -> Unit(Call("gen_block_ast", g, <<ast.body>>))
      [] ast.k = "IfExpr" -> Unit(Call("gen_if_expr", g, <<ast>>))
      [] ast.k = "FunCall" -> Unit(Call("gen_call", g, <<ast.called, ast.args>>))
      [] ast.k = "Match" ->
            Unit(Call("gen_match_expr", g, <<ast.matched, ast.cases>>))
      [] ast.k = "Assignment" -> AssignTyped(AstType(g, ast.rhs), ast)
      [] ast.k = "VarDeclaration" ->
            IF ast.ty.k = "Some" /\ IsBasic(g.types, ast.ty.v)
            THEN Unit(DeclareVar(build_alloca(g, ast.name, 87), ast.name, ast.ty.v))
            ELSE Res("err", g, None)
      [] ast.k = "Return" -> ReturnTyped(AstType(g, ast.returned), ast)
      [] ast.k = "PhiExpr" ->
            IF g.phi_data.k = "Some"
            THEN PhiTyped(AstType(g, ast.phi), g.phi_data.v, ast)
            ELSE Res("err", g, None)
      [] ast.k = "Break" ->
            IF g.break_bb.k = "Some"
            THEN Res("ok", Build([g EXCEPT !.placed_terminator = TRUE],
                                 Ins("br", g.break_bb.v, "", 163)), None)
            ELSE Res("err", g, None)
      [] ast.k = "Continue" ->
            IF g.continue_bb.k = "Some"
            THEN Res("ok", Build([g EXCEPT !.placed_terminator = TRUE],
                                 Ins("br", g.continue_bb.v, "", 173)), None)
            ELSE Res("err", g, None)
      [] OTHER -> Res("err", g, None)

\* gen_block_ast, the end: the entry branch from the block the construct
\* started in, the builder at the merge block, continue_bb restored
BlockEnd(pv, start_bb, body_bb, after_bb, old_continue) ==
    IF pv.st # "ok" THEN pv
    ELSE Res("ok",
             [position_at_end(Build(position_at_end(pv.g, start_bb),
                                    Ins("br", body_bb, "", 956)),
                              after_bb)
                 EXCEPT !.continue_bb = old_continue],
             AllocaOf(pv.val))

\* gen_block_ast, the body: g3 has the blocks "block" and "after" appended
\* last; break_bb becomes the merge block
BlockBody(g3, g, block) ==
    BlockEnd(Call("gen_body", [g3 EXCEPT !.break_bb = Some(LastBlock(g3))],
                  <<block, LastBlock(g3) - 1, LastBlock(g3)>>),
             get_insert_block(g), LastBlock(g3) - 1, LastBlock(g3), g.continue_bb)

\* gen_block_ast, the body block: continue_bb becomes the body block
BlockBlocks(g1, g, block) ==
    BlockBody(append_basic_block([g1 EXCEPT !.continue_bb = Some(LastBlock(g1))],
                                 "after"),
              g, block)

\* gen_block_ast: Some(slot of the phi-alloca) or None
gen_block_ast(g, block) == BlockBlocks(append_basic_block(g, "block"), g, block)

\* a PhiData is made of the slot build_alloca has just made
WithPhi(g1, after_bb, ty) ==
    Res("ok",
        [g1 EXCEPT !.phis = @ \cup {PhiData(after_bb, LastAlloca(g1), ty)}],
        Some(PhiData(after_bb, LastAlloca(g1), ty)))

\* gen_body, the PhiData for the type t of the body's phi statement: a
\* failed ast_type is unwrapped, a type that is not basic gives None
BodyPhiOf(t, after_bb) ==
    IF t.st # "ok" THEN Res("panic", t.g, None)
    ELSE IF IsBasic(t.g.types, t.val)
    THEN WithPhi(build_alloca(t.g, "phi_alloca", 1434), after_bb, t.val)
    ELSE Res("ok", t.g, None)

\* gen_body, the end: phi_data restored
BodyRestore(r, old_phi_data, made) ==
    IF r.st # "ok" THEN r
    ELSE Res("ok", [r.g EXCEPT !.phi_data = old_phi_data], made)

\* gen_body, the statements under the body's phi_data
BodyWithPhi(made, old_phi_data, body, to_bb, after_bb) ==
    IF made.st # "ok" THEN made
    ELSE BodyRestore(Call("gen_body_no_phi", [made.g EXCEPT !.phi_data = made.val],
                          <<body, to_bb, after_bb>>),
                     old_phi_data, made.val)

\* gen_body: Some(PhiData) when the body has a phi statement of a basic type
gen_body(g, body, to_bb, after_bb) ==
    BodyWithPhi(IF phi_node(body).k = "None" THEN Res("ok", g, None)
                ELSE BodyPhiOf(AstType(g, phi_node(body).v), after_bb),
                g.phi_data, body, to_bb, after_bb)

\* the statement loop of gen_body_no_phi after statement i
BodyNext(r, body, i) ==
    IF r.st # "ok" THEN r
    ELSE IF r.g.placed_terminator THEN r
    ELSE BodyLoop(r.g, body, i + 1)

\* the statement loop of gen_body_no_phi from statement i on
BodyLoop(g, body, i) ==
    IF i > Len(body) THEN Res("ok", g, None)
    ELSE BodyNext(Call("gen_stmt", g, <<body[i]>>), body, i)

\* a gen_body_no_phi that returns an Err with its scope layer still pushed
BodyEndKeepOnErr(r, after_bb) ==
    IF r.st = "panic" THEN r
    ELSE IF r.st = "err"
    THEN Res("err", position_at_end(r.g, after_bb), None)
    ELSE IF ~r.g.placed_terminator
    THEN Res("ok",
             position_at_end(Build([r.g EXCEPT !.current_scope = pop_layer(@)],
                                   Ins("br", after_bb, "", 1485)),
                             after_bb),
             None)
    ELSE Res("ok",
             position_at_end([r.g EXCEPT !.current_scope = pop_layer(@),
                                         !.placed_terminator = FALSE],
                             after_bb),
             None)

\* gen_body_no_phi, after the loop: the scope layer goes; on an Err the
\* builder moves to the merge block and the Err is returned; otherwise a
\* body that placed no terminator branches to the merge block
BodyEnd(r, after_bb) ==
    IF r.st = "panic" THEN r
    ELSE IF r.st = "err"
    THEN Res("err",
             position_at_end([r.g EXCEPT !.current_scope = pop_layer(@)], after_bb),
             None)
    ELSE IF ~r.g.placed_terminator
    THEN Res("ok",
             position_at_end(Build([r.g EXCEPT !.current_scope = pop_layer(@)],
                                   Ins("br", after_bb, "", 1485)),
                             after_bb),
             None)
    ELSE Res("ok",
             position_at_end([r.g EXCEPT !.current_scope = pop_layer(@),
                                         !.placed_terminator = FALSE],
                             after_bb),
             None)

\* gen_body_no_phi
gen_body_no_phi(g, body, to_bb, after_bb) ==
    BodyEnd(BodyLoop([position_at_end(g, to_bb)
                         EXCEPT !.current_scope = push_layer(@)], body, 1),
            after_bb)

\* gen_if_expr with an else, the end: phi_data restored, the conditional
\* branch built in the block the construct started in, the builder at the
\* merge block
IfElseEnd(done, old_phi_data, if_phi, start_bb, if_body_block, else_bb, after_bb) ==
    IF done.st # "ok" THEN done
    ELSE Res("ok",
             position_at_end(
                 Build(position_at_end([done.g EXCEPT !.phi_data = old_phi_data],
                                       start_bb),
                       Ins("condbr", if_body_block, else_bb, 1273)),
                 after_bb),
             AllocaOf(if_phi))

\* gen_if_expr, else-if: when both the if body and the nested if have a
\* phi-alloca, the nested value is loaded and stored into the outer slot
ElifPhi(else_phi, if_phi) ==
    IF else_phi.st # "ok" THEN else_phi
    ELSE IF if_phi.k = "Some" /\ else_phi.val.k = "Some"
    THEN Res("ok",
             Build(Build(else_phi.g, Ins("load", else_phi.val.v, "elif_phi", 1260)),
                   Ins("store", if_phi.v.alloca, "", 1261)),
             None)
    ELSE Res("ok", else_phi.g, None)

\* gen_if_expr with an else, after the if body: the else part is lowered
\* under the phi_data of the if body
IfElse(if_phi, start_bb, if_body_block, else_bb, after_bb, else_expr) ==
    IF if_phi.st # "ok" THEN if_phi
    ELSE IfElseEnd(
           IF else_expr.k = "ElseIf"
           THEN ElifPhi(Call("gen_if_expr",
                             position_at_end([if_phi.g EXCEPT !.phi_data = if_phi.val],
                                             else_bb),
                             <<else_expr.if_expr>>),
                        if_phi.val)
           ELSE Call("gen_body_no_phi",
                     position_at_end([if_phi.g EXCEPT !.phi_data = if_phi.val],
                                     start_bb),
                     <<else_expr.body, else_bb, after_bb>>),
           if_phi.g.phi_data, if_phi.val, start_bb, if_body_block, else_bb, after_bb)

\* gen_if_expr with an else, the if body: g3 has the blocks "if_body",
\* "else_bb" and "after_bb" appended last
IfElseBody(g3, start_bb, if_expr) ==
    IfElse(Call("gen_body", g3,
                <<if_expr.body, LastBlock(g3) - 2, LastBlock(g3)>>),
           start_bb, LastBlock(g3) - 2, LastBlock(g3) - 1, LastBlock(g3),
           if_expr.else_expr.v)

\* gen_if_expr without an else, the end
IfOnlyEnd(if_phi, start_bb, if_body_block, after_bb) ==
    IF if_phi.st # "ok" THEN if_phi
    ELSE Res("ok",
             position_at_end(Build(position_at_end(if_phi.g, start_bb),
                                   Ins("condbr", if_body_block, after_bb, 1285)),
                             after_bb),
             AllocaOf(if_phi.val))

\* gen_if_expr without an else, the if body: g2 has the blocks "if_body" and
\* "after_if" appended last
IfOnlyBody(g2, start_bb, if_expr) ==
    IfOnlyEnd(Call("gen_body", g2,
                   <<if_expr.body, LastBlock(g2) - 1, LastBlock(g2)>>),
              start_bb, LastBlock(g2) - 1, LastBlock(g2))

\* gen_if_expr, the blocks after the condition
IfBlocks(cond, start_bb, if_expr) ==
    IF cond.st # "ok" THEN cond
    ELSE IF if_expr.else_expr.k = "Some"
    THEN IfElseBody(
             append_basic_block(
                 append_basic_block(append_basic_block(cond.g, "if_body"),
                                    "else_bb"),
                 "after_bb"),
             start_bb, if_expr)
    ELSE IfOnlyBody(
             append_basic_block(append_basic_block(cond.g, "if_body"), "after_if"),
             start_bb, if_expr)

\* gen_if_expr, the condition: it has to be of type bool
IfCond(ct, start_bb, if_expr) ==
    IF ct.st # "ok" THEN ct
    ELSE IF At(ct.g.types, ct.val).data.k # "Bool" THEN Res("err", ct.g, None)
    ELSE IfBlocks(Call("gen_expr", ct.g, <<if_expr.cond>>), start_bb, if_expr)

\* gen_if_expr: Some(slot of the if body's phi-alloca) or None
gen_if_expr(g, if_expr) ==
    IfCond(AstType(g, if_expr.cond), get_insert_block(g), if_expr)

\* a case numbered from 1
CaseFromOne(matched_parts, ty, arm_bb) ==
    <<ByteOf(Position(matched_parts, ty) + 1), arm_bb>>

\* gen_match_expr, the case of an arm: (i8 const_int(idx), arm_bb), idx the
\* position of the arm's type in the variant list
CaseOf(matched_parts, ty, arm_bb) ==
    <<ByteOf(Position(matched_parts, ty)), arm_bb>>

\* collect::<Result<Vec<_>, _>>(): the case of an arm before the cases of
\* the arms after it, or the first Err
Collect(case, r) ==
    IF r.st # "ok" THEN r ELSE Res("ok", r.g, <<case>> \o r.val)

\* gen_match_expr, an arm is lowered into arm_bb: it branches to the merge
\* block unless placed_terminator is set, and the next arm follows
ArmDone(r, arm_bb, arms, matched_parts, after_bb) ==
    IF r.st # "ok" THEN r
    ELSE Collect(CaseOf(matched_parts, Head(arms)[1], arm_bb),
                 MatchArms(IF ~r.g.placed_terminator
                           THEN Build(r.g, Ins("br", after_bb, "", 346))
                           ELSE r.g,
                           Tail(arms), matched_parts, after_bb))

\* the arms of gen_match_expr from the first of arms on: each arm gets a
\* block, its statement is lowered, and the walk stops at the first Err
MatchArms(g, arms, matched_parts, after_bb) ==
    IF arms = << >> THEN Res("ok", g, << >>)
    ELSE IF Position(matched_parts, Head(arms)[1]) < 0 THEN Res("err", g, None)
    ELSE ArmDone(Call("gen_stmt",
                      position_at_end(append_basic_block(g, "matcharm_bb"),
                                      Len(g.blocks) + 1),
                      <<Head(arms)[2]>>),
                 Len(g.blocks) + 1, arms, matched_parts, after_bb)

\* gen_match_expr, the end: the slot of the current phi_data is returned and
\* phi_data restored
MatchEnd(g7, old_phi_data) ==
    Res("ok", [g7 EXCEPT !.phi_data = old_phi_data], AllocaOf(g7.phi_data))

\* gen_match_expr, the switch in the block the arms started from: its
\* default target is the merge block
MatchSwitch(cases, start_bb, old_phi_data, after_bb) ==
    IF cases.st # "ok" THEN cases
    ELSE MatchEnd(position_at_end(Build(position_at_end(cases.g, start_bb),
                                        Ins("switch", after_bb, cases.val, 365)),
                                  after_bb),
                  old_phi_data)

\* gen_match_expr, the discriminant of the matched value, then the arms
MatchDiscr(lv, matched_parts, old_phi_data, after_bb, arms) ==
    IF lv.st # "ok" THEN lv
    ELSE MatchSwitch(
             MatchArms(Build(Build(lv.g, Ins("gep", lv.val.id, 0, 326)),
                             Ins("load", 0, "enum_match_discr_load", 330)),
                       arms, matched_parts, after_bb),
             get_insert_block(lv.g), old_phi_data, after_bb)

\* gen_match_expr, the matched type: an enum once its aliases are unwrapped
MatchEnum(mt, old_phi_data, after_bb, matched, arms) ==
    IF mt.st # "ok" THEN mt
    ELSE IF At(mt.g.types, unwrap_alias(mt.g.types, mt.val)).data.k # "Enum"
    THEN Res("err", mt.g, None)
    ELSE MatchDiscr(Call("gen_lval", mt.g, <<matched>>),
                    At(mt.g.types, unwrap_alias(mt.g.types, mt.val)).data.parts,
                    old_phi_data, after_bb, arms)

\* gen_match_expr, phi_data becomes the PhiData of the match
MatchTyped(made, old_phi_data, after_bb, matched, arms) ==
    IF made.st # "ok" THEN made
    ELSE MatchEnum(AstType([made.g EXCEPT !.phi_data = made.val], matched),
                   old_phi_data, after_bb, matched, arms)

\* gen_match_expr, the PhiData for the type t of the first arm
MatchPhiOf(t, after_bb) ==
    IF t.st # "ok" THEN t
    ELSE IF ~IsBasic(t.g.types, t.val) THEN Res("err", t.g, None)
    ELSE WithPhi(build_alloca(t.g, "match_phi", 299), after_bb, t.val)

\* gen_match_expr, g1 has the block "after_match" appended last
MatchPhi(g1, has_phi, matched, arms) ==
    MatchTyped(IF has_phi THEN MatchPhiOf(AstType(g1, arms[1][2]), LastBlock(g1))
               ELSE Res("ok", g1, None),
               g1.phi_data, LastBlock(g1), matched, arms)

\* a match whose arms may have a phi or not, each as it likes
gen_match_expr_any(g, matched, arms) ==
    MatchPhi(append_basic_block(g, "after_match"),
             \E i \in 1..Len(arms) : arms[i][2].k = "PhiExpr", matched, arms)

\* gen_match_expr: Some(slot of the phi-alloca) or None; the arms have a phi
\* all or none
gen_match_expr(g, matched, arms) ==
    IF (\E i \in 1..Len(arms) : arms[i][2].k = "PhiExpr")
       /\ ~(\A i \in 1..Len(arms) : arms[i][2].k = "PhiExpr")
    THEN Res("err", g, None)
    ELSE MatchPhi(append_basic_block(g, "after_match"),
                  \E i \in 1..Len(arms) : arms[i][2].k = "PhiExpr", matched, arms)

\* the dispatch of a call to the function it names
Call(fn, g, a) ==
    CASE fn = "gen_stmt"        -> gen_stmt(g, a[1])
      [] fn = "gen_expr"        -> GenExpr(g, a[1])
      [] fn = "gen_lval"        -> GenLval(g, a[1])
      [] fn = "gen_call"        -> gen_call(g, a[1], a[2])
      [] fn = "gen_block_ast"   -> gen_block_ast(g, a[1])
      [] fn = "gen_if_expr"     -> gen_if_expr(g, a[1])
      [] fn = "gen_match_expr"  -> gen_match_expr(g, a[1], a[2])
      [] fn = "gen_body"        -> gen_body(g, a[1], a[2], a[3])
      [] fn = "gen_body_no_phi" -> gen_body_no_phi(g, a[1], a[2], a[3])

(***************************************************************************)
(* SpecGen: the driver (codegen_module) over a module tree                 *)
(***************************************************************************)
MaxCalls == 2    \* codegen_module calls made on one generator
MaxBody  == 2    \* statements of the body of f

\* the types of the context the generator is built with: the primitives, the
\* enum { u8, bool, () } and an alias of it
GenStore == CastStore

NumLit   == Lit(I32, << >>)
BoolLit  == Lit(BOOL, << >>)
UnitLit  == Lit(UNIT, << >>)
CallOf(path) == FunCall(Access(path), << >>)
LetX(e)  == Assignment(VarDeclaration("x", None), e)

\* simple statements; a literal is not a statement ("Invalid statement")
Leaves ==
    {Break, Continue, PhiExpr(NumLit), Return(UnitLit), CallOf(<<"g">>),
     CallOf(<<"sub", "h">>), NumLit}

\* bodies of the nested constructs
InnerBodies ==
    {<< >>} \cup {<<l>> : l \in Leaves \ {CallOf(<<"sub", "h">>)}}
    \cup {<<NumLit, PhiExpr(NumLit)>>}

\* a block whose body is a match and a call after it
MatchThenCall ==
    Block(<<Match(Access(<<"e">>), << <<U8, Return(UnitLit)>> >>), CallOf(<<"g">>)>>)

\* a block whose body declares x
LetInBlock == Block(<<LetX(NumLit)>>)

Blocks == {Block(b) : b \in InnerBodies} \cup {MatchThenCall, LetInBlock}

Ifs ==
    {IfExpr(BoolLit, b, e) :
        b \in InnerBodies,
        e \in {None} \cup {Some(Else(c)) : c \in InnerBodies}
               \cup {Some(ElseIf(IfExpr(BoolLit, c, None))) :
                        c \in {<< >>, <<PhiExpr(NumLit)>>}}}
    \cup {IfExpr(NumLit, << >>, None)}

\* an if whose bodies both end in a phi
IfPhi == IfExpr(BoolLit, <<PhiExpr(NumLit)>>, Some(Else(<<PhiExpr(NumLit)>>)))

Matches ==
    {Match(Access(<<"e">>), cs) :
        cs \in {<< >>, << <<I32, Break>> >>}
               \cup {<< <<U8, l>> >> : l \in Leaves \ {CallOf(<<"sub", "h">>)}}
               \cup {<< <<U8, l1>>, <<BOOL, l2>> >> :
                        l1 \in {PhiExpr(NumLit), Break, Return(UnitLit)},
                        l2 \in {PhiExpr(NumLit), Break, CallOf(<<"g">>)}}}
    \cup {Match(NumLit, << <<U8, PhiExpr(NumLit)>> >>)}

Constructs == Blocks \cup Ifs \cup Matches

\* a construct is a statement, or the value of `let x = ...`
\* `let e = e`: the initializer names the variable being declared
LetEE == Assignment(VarDeclaration("e", None), Access(<<"e">>))

TopStmts == Leaves \cup Constructs \cup {LetX(c) : c \in Constructs} \cup {LetEE}

\* the bodies of f: any statement, then simple statements
FBodies ==
    {<< >>}
    \cup {<<s>> \o ls : s \in TopStmts, ls \in SeqsUpTo(Leaves, MaxBody - 1)}

FSmall == {<< >>, <<Block(<< >>)>>, <<CallOf(<<"g">>)>>, <<CallOf(<<"sub", "h">>)>>}
GBodies ==
    {None, Some(<<Break>>), Some(<<Return(NumLit)>>), Some(<<Return(IfPhi)>>),
     Some(<<Block(<<Return(IfPhi)>>)>>)}
HBodies == {Some(<< >>), Some(<<CallOf(<<"g">>)>>)}

\* f(e: E) -> (), g() -> i32, h() -> (); unit marks the one function, if
\* any, that is declared with a parameter of the unit type instead
FunArena(fbody, gbody, hbody, unit) ==
    << FunctionOf("f", FunctionType(UNIT, IF unit = 0 THEN <<UNIT>> ELSE <<CastEnum>>),
                  <<Some("e")>>, Some(fbody)),
       FunctionOf("g", FunctionType(I32, IF unit = 1 THEN <<UNIT>> ELSE << >>),
                  IF unit = 1 THEN <<Some("u")>> ELSE << >>, gbody),
       FunctionOf("h", FunctionType(UNIT, IF unit = 2 THEN <<UNIT>> ELSE << >>),
                  IF unit = 2 THEN <<Some("u")>> ELSE << >>, hbody) >>

\* f(e: E) -> ret with the body `return e`, g and h as above
FunArenaRet(ret) ==
    << FunctionOf("f", FunctionType(ret, <<CastEnum>>), <<Some("e")>>,
                  Some(<<Return(Access(<<"e">>))>>)),
       FunctionOf("g", FunctionType(I32, << >>), << >>, Some(<<Return(NumLit)>>)),
       FunctionOf("h", FunctionType(UNIT, << >>), << >>, Some(<< >>)) >>

FunArenas ==
    {FunArena(b, Some(<<Return(NumLit)>>), Some(<< >>), -1) : b \in FBodies}
    \cup {FunArenaRet(ret) : ret \in {CastEnum, CastAlias, BOOL}}
    \cup {FunArena(p[1], p[2], p[3], p[4]) :
             p \in FSmall \X GBodies \X HBodies \X (-1..2)}

FunIds == 0..2

\* the FunIds of the FunDefs of a sequence of definitions, in order
RECURSIVE FunsOf(_)
FunsOf(defs) ==
    IF defs = << >> THEN << >>
    ELSE (IF Head(defs)[2].k = "FunDef" THEN <<Head(defs)[2].fun>> ELSE << >>)
         \o FunsOf(Tail(defs))

\* the ModIds of the ModDefs of a sequence of definitions, in order
RECURSIVE ModsOf(_)
ModsOf(defs) ==
    IF defs = << >> THEN << >>
    ELSE (IF Head(defs)[2].k = "ModDef" THEN <<Head(defs)[2].mod>> ELSE << >>)
         \o ModsOf(Tail(defs))

\* forward_funs: the FunIds in the order the walk visits them
RECURSIVE ForwardWalk(_)
RECURSIVE ForwardWalks(_)
ForwardWalk(module) ==
    FunsOf(At(Modules, module).defs) \o ForwardWalks(ModsOf(At(Modules, module).defs))
ForwardWalks(mods) ==
    IF mods = << >> THEN << >>
    ELSE ForwardWalk(Head(mods)) \o ForwardWalks(Tail(mods))

\* codegen_defs: the steps of the walk, in order
RECURSIVE DefsWalk(_)
RECURSIVE DefsWalks(_)
DefsWalk(module) ==
    LET fs == FunsOf(At(Modules, module).defs) IN
    <<[op |-> "enter", id |-> module]>>
    \o [i \in 1..Len(fs) |-> [op |-> "fun", id |-> fs[i]]]
    \o <<[op |-> "leave", id |-> module]>>
    \o DefsWalks(ModsOf(At(Modules, module).defs))
DefsWalks(mods) ==
    IF mods = << >> THEN << >>
    ELSE DefsWalk(Head(mods)) \o DefsWalks(Tail(mods))

\* the functions of the module tree rooted at a module
TreeFuns(module) == {ForwardWalk(module)[i] : i \in 1..Len(ForwardWalk(module))}

\* gen_fun_ty: Ok iff every argument type lowers to a basic type
gen_fun_ty(store, ty) == \A i \in 1..Len(ty.args) : IsBasic(store, ty.args[i])

\* the generator as the lowerer sees it
G == [types |-> types, funs |-> funs, llvm_funs |-> llvm_funs,
      current_scope |-> current_scope, current_fun |-> current_fun,
      phi_data |-> phi_data, continue_bb |-> continue_bb,
      break_bb |-> break_bb, placed_terminator |-> placed_terminator,
      blocks |-> blocks, insert_block |-> insert_block, nalloca |-> nalloca,
      phis |-> phis]

\* the generator after a lowering step left it as g
SetG(g) ==
    /\ types' = g.types
    /\ current_scope' = g.current_scope
    /\ current_fun' = g.current_fun
    /\ phi_data' = g.phi_data
    /\ continue_bb' = g.continue_bb
    /\ break_bb' = g.break_bb
    /\ placed_terminator' = g.placed_terminator
    /\ blocks' = g.blocks
    /\ insert_block' = g.insert_block
    /\ nalloca' = g.nalloca
    /\ phis' = g.phis

lowerVars == <<types, current_scope, current_fun, phi_data, continue_bb,
               break_bb, placed_terminator, blocks, insert_block, nalloca, phis>>

\* a diagnostic: the "In function" note, if any, and the statement it labels
Diagnostic(fun, stmt) == [fun |-> fun, stmt |-> stmt]

InitGen ==
    /\ types = GenStore
    /\ irtypes = IrContextNew
    /\ nfuns = 3
    /\ nmodules = 2
    /\ COUNT = 0
    /\ calls = << >>
    /\ CastIdle
    /\ funs \in FunArenas
    /\ GenNew
    /\ DefIdle
    /\ OneCtx

ctxRest == <<irtypes, nfuns, nmodules, COUNT, calls>>

\* codegen_module(module) is called: a backend module is created and pass 1
\* (forward_funs) starts
CodegenModule ==
    /\ pc = "idle"
    /\ ncalls < MaxCalls
    /\ \E module \in ModIds :
          /\ root' = module
          /\ work' = ForwardWalk(module)
    /\ ncalls' = ncalls + 1
    /\ pc' = "forward"
    /\ UNCHANGED <<ctxVars, castVars, defVars, types2, funs, llvm_funs, protos, codegened_funs,
                   current_scope, current_fun, phi_data, continue_bb, break_bb,
                   placed_terminator, diags, blocks, insert_block, nalloca,
                   phis, lowered>>

\* forward_funs without its check of the already-forwarded set
NeverForwarded(fun_id) == FALSE

\* forward_funs: self.codegened_funs.contains(&fun_id)
AlreadyForwarded(fun_id) == fun_id \in codegened_funs

\* forward_funs, one function of the walk: skipped when already forwarded;
\* otherwise marked as forwarded, then its prototype is made and recorded, or
\* gen_fun_ty fails and codegen_module reports the diagnostic and returns Err
ForwardFun ==
    /\ pc = "forward"
    /\ work # << >>
    /\ LET fun_id == Head(work) IN
       IF AlreadyForwarded(fun_id)
       THEN /\ work' = Tail(work)
            /\ UNCHANGED <<codegened_funs, llvm_funs, protos, diags, pc>>
       ELSE /\ codegened_funs' = codegened_funs \cup {fun_id}
            /\ IF gen_fun_ty(types, At(funs, fun_id).ty)
               THEN /\ protos' = Append(protos, fun_id)
                    /\ llvm_funs' = llvm_funs \cup {fun_id}
                    /\ work' = Tail(work)
                    /\ UNCHANGED <<diags, pc>>
               ELSE /\ diags' = Append(diags, Diagnostic(None, None))
                    /\ work' = << >>
                    /\ pc' = "idle"
                    /\ UNCHANGED <<protos, llvm_funs>>
    /\ UNCHANGED <<ctxVars, castVars, defVars, types2, funs, lowerVars, root, lowered, ncalls>>

\* forward_funs returned Ok: pass 2 (codegen_defs) starts
ForwardDone ==
    /\ pc = "forward"
    /\ work = << >>
    /\ pc' = "defs"
    /\ work' = DefsWalk(root)
    /\ UNCHANGED <<ctxVars, castVars, defVars, types2, funs, llvm_funs, protos, codegened_funs,
                   lowerVars, diags, root, lowered, ncalls>>

\* define every (name, def) of defs in the topmost layer
RECURSIVE DefineAll(_, _)
DefineAll(scope, defs) ==
    IF defs = << >> THEN scope
    ELSE DefineAll(define(scope, Head(defs)[1], Head(defs)[2]), Tail(defs))

\* codegen_defs enters a module: a scope layer with the module's definitions
EnterModule ==
    /\ pc = "defs"
    /\ work # << >>
    /\ Head(work).op = "enter"
    /\ current_scope' = DefineAll(push_layer(current_scope),
                                  At(Modules, Head(work).id).defs)
    /\ work' = Tail(work)
    /\ UNCHANGED <<ctxVars, castVars, defVars, types2, funs, llvm_funs, protos, codegened_funs,
                   current_fun, phi_data, continue_bb, break_bb,
                   placed_terminator, diags, blocks, insert_block, nalloca,
                   phis, pc, root, lowered, ncalls>>

\* a named parameter is bound: g1 has its slot; a store, a Value in scope
BindArg(g1, name, ty) ==
    [Build(g1, Ins("store", LastAlloca(g1), "", 191))
        EXCEPT !.current_scope = define(@, name, Value(ty, Ptr(LastAlloca(g1))))]

\* bind the named parameters from parameter i on
RECURSIVE BindArgs(_, _, _)
BindArgs(g, fun, i) ==
    IF i > Len(fun.arg_names) \/ i > Len(fun.ty.args) THEN g
    ELSE IF fun.arg_names[i].k = "Some"
    THEN BindArgs(BindArg(build_alloca(g, "arg_alloca", 190),
                          fun.arg_names[i].v, fun.ty.args[i]),
                  fun, i + 1)
    ELSE BindArgs(g, fun, i + 1)

\* the entry block of a body: g2 has the block "entry_bb" appended last
EntryBlock(g2) ==
    [position_at_end(g2, LastBlock(g2)) EXCEPT !.current_scope = push_layer(@)]

\* codegen_defs reaches a function: one without a body is passed over; for
\* one with a body the prototype is looked up (a panic when there is none),
\* the entry block appended and the parameters bound
BeginFun ==
    /\ pc = "defs"
    /\ work # << >>
    /\ Head(work).op = "fun"
    /\ LET fun_id == Head(work).id
           fun == At(funs, fun_id)
       IN
       IF fun.body.k = "None"
       THEN UNCHANGED <<lowerVars, pc, lowered>>
       ELSE IF fun_id \notin llvm_funs
       THEN /\ placed_terminator' = FALSE
            /\ pc' = "panic"
            /\ UNCHANGED <<types, current_scope, current_fun, phi_data,
                           continue_bb, break_bb, blocks, insert_block,
                           nalloca, phis, lowered>>
       ELSE /\ SetG(BindArgs(
                       EntryBlock(
                           append_basic_block(
                               [G EXCEPT !.placed_terminator = FALSE,
                                         !.current_fun = Some(fun_id)],
                               "entry_bb")),
                       fun, 1))
            /\ lowered' = << >>
            /\ pc' = "body"
    /\ work' = Tail(work)
    /\ UNCHANGED <<ctxRest, castVars, defVars, types2, funs, llvm_funs, protos,
                   codegened_funs, diags, root, ncalls>>

\* the statement loop of codegen_defs after gen_stmt returned r for
\* statement i: an Err is emitted with the note "In function"
Lowered(r, name, i) ==
    /\ SetG(r.g)
    /\ lowered' = Append(lowered, r.st)
    /\ diags' = IF r.st = "err"
                THEN Append(diags, Diagnostic(Some(name), Some(i)))
                ELSE diags
    /\ pc' = IF r.st = "panic" THEN "panic" ELSE "body"

\* the statement loop of codegen_defs, one statement of the current body
GenStmt ==
    /\ pc = "body"
    /\ Len(lowered) < Len(At(funs, current_fun.v).body.v)
    /\ Lowered(Call("gen_stmt", G,
                    <<At(funs, current_fun.v).body.v[Len(lowered) + 1]>>),
               At(funs, current_fun.v).name, Len(lowered) + 1)
    /\ UNCHANGED <<ctxRest, castVars, defVars, types2, funs, llvm_funs, protos, codegened_funs,
                   root, work, ncalls>>

\* the statements of the body are through: the function's scope layer goes
EndFun ==
    /\ pc = "body"
    /\ Len(lowered) = Len(At(funs, current_fun.v).body.v)
    /\ current_scope' = pop_layer(current_scope)
    /\ pc' = "defs"
    /\ UNCHANGED <<ctxVars, castVars, defVars, types2, funs, llvm_funs, protos, codegened_funs,
                   current_fun, phi_data, continue_bb, break_bb,
                   placed_terminator, diags, blocks, insert_block, nalloca,
                   phis, root, work, lowered, ncalls>>

\* the functions of the module are through: the module's scope layer goes
LeaveModule ==
    /\ pc = "defs"
    /\ work # << >>
    /\ Head(work).op = "leave"
    /\ current_scope' = pop_layer(current_scope)
    /\ work' = Tail(work)
    /\ UNCHANGED <<ctxVars, castVars, defVars, types2, funs, llvm_funs, protos, codegened_funs,
                   current_fun, phi_data, continue_bb, break_bb,
                   placed_terminator, diags, blocks, insert_block, nalloca,
                   phis, pc, root, lowered, ncalls>>

\* codegen_defs returned: codegen_module returns Ok(llvm_mod)
DefsDone ==
    /\ pc = "defs"
    /\ work = << >>
    /\ pc' = "idle"
    /\ UNCHANGED <<ctxVars, castVars, defVars, types2, funs, llvm_funs, protos, codegened_funs,
                   lowerVars, diags, root, work, lowered, ncalls>>

NextGen ==
    \/ CodegenModule
    \/ ForwardFun
    \/ ForwardDone
    \/ EnterModule
    \/ BeginFun
    \/ GenStmt
    \/ EndFun
    \/ LeaveModule
    \/ DefsDone

SpecGen == InitGen /\ [][NextGen]_vars

(***************************************************************************)
(* Properties of the driver and the lowerer                                *)
(***************************************************************************)
\* C1: while codegen_module emits bodies (pass 2), every function of the
\* module tree rooted at root has an entry in the FunId -> backend-function
\* map, so that no lookup of a function a body is emitted for or refers to
\* fails
C1_ForwardBeforeBodies ==
    pc \in {"defs", "body", "panic"} => TreeFuns(root) \subseteq llvm_funs

\* the instructions of basic block b
InsOf(b) == blocks[b].ins

\* the phi-alloca of pd is read as the value of its construct (gen_expr)
UsedAsExpr(pd) ==
    \E b \in 1..Len(blocks) : \E i \in 1..Len(InsOf(b)) :
        /\ InsOf(b)[i].op = "load"
        /\ InsOf(b)[i].a = pd.alloca
        /\ InsOf(b)[i].line = 200

\* instruction i of block b leaves a body for the merge block of pd, other
\* than by a break or a continue
ExitsToMerge(pd, b, i) ==
    /\ InsOf(b)[i].op = "br"
    /\ InsOf(b)[i].a = pd.break_bb
    /\ InsOf(b)[i].line \notin {163, 173}

\* C2: for a construct used as an expression, every branch that leaves one
\* of its bodies for the merge block comes right after a store into the
\* construct's phi-alloca; no body falls through to the merge block
C2_StoreBeforeMerge ==
    \A pd \in phis :
        UsedAsExpr(pd) =>
            \A b \in 1..Len(blocks) : \A i \in 1..Len(InsOf(b)) :
                ExitsToMerge(pd, b, i) =>
                    /\ i > 1
                    /\ InsOf(b)[i - 1].op = "store"
                    /\ InsOf(b)[i - 1].a = pd.alloca

\* C9: once gen_stmt returned an Err for a statement of a function body, no
\* further statement of that function is lowered: an Err is the result of
\* the last statement lowered only
C9_StopsAtFailingStatement ==
    \A i \in 1..(Len(lowered) - 1) : lowered[i] # "err"

\* C10: a phi, break or continue statement of a function body itself, where
\* no block construct is open, returns an Err (and so emits no branch),
\* whatever was lowered before it
C10_OutsideBlockIsError ==
    current_fun.k = "Some" =>
        \A i \in 1..Len(lowered) :
            At(funs, current_fun.v).body.v[i].k \in {"PhiExpr", "Break", "Continue"}
                => lowered[i] = "err"

\* C11: each FunId has at most one backend prototype, and the entry of a
\* FunId in the FunId -> backend-function map is that one prototype: no two
\* prototypes are made for the same FunId, over any number of
\* codegen_module calls
C11_OnePrototype ==
    /\ \A i, j \in 1..Len(protos) : protos[i] = protos[j] => i = j
    /\ llvm_funs = {protos[i] : i \in 1..Len(protos)}

\* the forward pass of a second codegen_module call over the whole tree is
\* through, and every function of the tree has a prototype: each of them was
\* reached again after it was forwarded
C11_Witness ==
    /\ ncalls = 2
    /\ pc = "defs"
    /\ root = 0
    /\ Len(protos) = 3

(***************************************************************************)
(* SpecDef: one get_def call on a module of the tree with a path           *)
(***************************************************************************)
MaxPath == 3     \* segments of a path

\* the names of the tree and one name nothing defines
PathNames == {"f", "sub", "h", "t", "x"}

DefPaths == SeqsUpTo(PathNames, MaxPath) \ {<< >>}

InitDef ==
    /\ types = GenStore
    /\ irtypes = IrContextNew
    /\ nfuns = 3
    /\ nmodules = 2
    /\ COUNT = 0
    /\ calls = << >>
    /\ CastIdle
    /\ GenIdle
    /\ OneCtx
    /\ dmod \in ModIds
    /\ dpath \in DefPaths
    /\ dres = None

\* get_def(dmod, dpath) is called
GetDef ==
    /\ dres = None
    /\ dres' = get_def(dmod, dpath)
    /\ UNCHANGED <<ctxVars, castVars, genVars, types2, dmod, dpath>>

SpecDef == InitDef /\ [][GetDef]_vars

\* the module reached from a module when the first i segments of a path
\* each name a submodule of the module reached before it, or -1
RECURSIVE ModAfter(_, _, _)
ModAfter(module, path, i) ==
    IF i = 0 THEN module
    ELSE IF ModAfter(module, path, i - 1) < 0 THEN -1
    ELSE IF ModGet(ModAfter(module, path, i - 1), path[i]).k = "Some"
            /\ ModGet(ModAfter(module, path, i - 1), path[i]).v.k = "ModDef"
    THEN ModGet(ModAfter(module, path, i - 1), path[i]).v.mod
    ELSE -1

\* get_def returned the definition of the last segment in the module that
\* the segments before it lead to
ResolvedDef ==
    /\ dres.k = "Some"
    /\ ModAfter(dmod, dpath, Len(dpath) - 1) >= 0
    /\ ModGet(ModAfter(dmod, dpath, Len(dpath) - 1), dpath[Len(dpath)]) = dres

\* segment i is the first that does not resolve: the segments before it lead
\* to a module in which it names no submodule or, when it is the last, nothing
FirstUnresolved(i) ==
    /\ ModAfter(dmod, dpath, i - 1) >= 0
    /\ IF i = Len(dpath)
       THEN ModGet(ModAfter(dmod, dpath, i - 1), dpath[i]).k = "None"
       ELSE ModAfter(dmod, dpath, i) < 0

\* get_def returned the name of the first segment that does not resolve
UnresolvedName ==
    /\ dres # None
    /\ dres.k = "None"
    /\ \E i \in 1..Len(dpath) : dres.name = dpath[i] /\ FirstUnresolved(i)

\* get_def panicked on a type followed by the last segment of the path
TypeAssociated ==
    /\ dres.k = "panic"
    /\ Len(dpath) >= 2
    /\ ModAfter(dmod, dpath, Len(dpath) - 2) >= 0
    /\ ModGet(ModAfter(dmod, dpath, Len(dpath) - 2), dpath[Len(dpath) - 1])
          \in {Some(TypeDef(ty)) : ty \in 0..(Len(types) - 1)}

MaxOther == 6    \* new_empty_type calls on the second context

InitTwo ==
    /\ types = SparkCtxNew
    /\ irtypes = IrContextNew
    /\ nfuns = 0
    /\ nmodules = 1
    /\ COUNT = 0
    /\ calls = << >>
    /\ CastIdle
    /\ GenIdle
    /\ DefIdle
    /\ types2 = SparkCtxNew

\* SparkCtx::new_empty_type() on the second context
NewEmptyTypeOther ==
    /\ Len(types2) < 12 + MaxOther
    /\ COUNT' = COUNT + 1
    /\ types2' = new_type(types2, Invalid(COUNT')).store
    /\ UNCHANGED <<types, irtypes, nfuns, nmodules, calls, castVars, genVars,
                   defVars>>

NextTwo == NewEmptyType \/ NewEmptyTypeOther

SpecTwo == InitTwo /\ [][NextTwo]_vars

\* the Invalid tags of a store are those of a context that is the only one
\* operated on: its k-th new_empty_type call gave the tag k
OwnTags(store) ==
    \A i \in 13..Len(store) :
        store[i].data.k = "Invalid" =>
            store[i].data.tag =
                Cardinality({j \in 13..i : store[j].data.k = "Invalid"})

\* C13: the tag new_empty_type gives on a context depends only on the
\* operations applied to that context before: whatever is done to the other
\* context, the tags of a context are those it gets when it is operated on
\* alone
C13_TagsOwnHistory == OwnTags(types) /\ OwnTags(types2)


\* statement i of the body of the current function
StmtAt(i) == At(funs, current_fun.v).body.v[i]

\* the match that statement s is, or whose value `let x = ...` binds
IsMatch(s) ==
    \/ s.k = "Match"
    \/ s.k = "Assignment" /\ s.rhs.k = "Match"

MatchIn(s) == IF s.k = "Match" THEN s ELSE s.rhs

\* the declared type of the matched expression: a literal's type, or the
\* type of the first parameter of the current function for the path `e`
MatchedType(m) ==
    IF m.matched.k = "Lit" THEN m.matched.ty
    ELSE At(funs, current_fun.v).ty.args[1]

MatchedData(m) == At(types, unwrap_alias(types, MatchedType(m))).data

NotAnEnum(m) == MatchedData(m).k # "Enum"

ArmOutsideEnum(m) ==
    /\ MatchedData(m).k = "Enum"
    /\ \E i \in 1..Len(m.cases) :
           \A j \in 1..Len(MatchedData(m).parts) :
               MatchedData(m).parts[j] # m.cases[i][1]

MixedPhiArms(m) ==
    /\ \E i \in 1..Len(m.cases) : m.cases[i][2].k = "PhiExpr"
    /\ \E i \in 1..Len(m.cases) : m.cases[i][2].k # "PhiExpr"

\* C14: a match whose matched type is not an enum once its aliases are
\* unwrapped, or that has an arm whose type is not a variant of the enum, or
\* that has an arm with a phi and an arm without, is lowered to an Err
C14_BadMatchIsError ==
    current_fun.k = "Some" =>
        \A i \in 1..Len(lowered) :
            (IsMatch(StmtAt(i))
             /\ (\/ NotAnEnum(MatchIn(StmtAt(i)))
                 \/ ArmOutsideEnum(MatchIn(StmtAt(i)))
                 \/ MixedPhiArms(MatchIn(StmtAt(i)))))
                => lowered[i] = "err"

\* a match with a phi arm and an arm that calls g, of an enum that has the
\* types of both arms, was lowered to an Err
C14_Witness ==
    /\ current_fun.k = "Some"
    /\ Len(lowered) = 1
    /\ lowered[1] = "err"
    /\ IsMatch(StmtAt(1))
    /\ MixedPhiArms(MatchIn(StmtAt(1)))
    /\ ~NotAnEnum(MatchIn(StmtAt(1)))
    /\ ~ArmOutsideEnum(MatchIn(StmtAt(1)))
    /\ MatchIn(StmtAt(1)).cases[2][2].k = "FunCall"


\* the if without an else that statement s is, or whose value `let x = ...`
\* binds
IsLetIfOnly(s) ==
    /\ s.k = "Assignment"
    /\ s.rhs.k = "IfExpr"
    /\ s.rhs.else_expr = None

\* C15: an if without an else yields no value: no phi-alloca is made for it
\* (no PhiData merges at its "after_if" block), and `let x = if c { ... }`
\* is lowered to an Err, also when the body has a phi statement
C15_IfOnlyHasNoValue ==
    /\ \A pd \in phis : blocks[pd.break_bb].name # "after_if"
    /\ current_fun.k = "Some" =>
           \A i \in 1..Len(lowered) :
               IsLetIfOnly(StmtAt(i)) => lowered[i] # "ok"


\* C16: the lowering of a block, if or match statement, whether it returns
\* Ok or an Err, leaves phi_data, break_bb and continue_bb as they were when
\* the construct was entered
C16_ConstructKeepsAmbient ==
    [][(/\ pc = "body"
        /\ Len(lowered') = Len(lowered) + 1
        /\ StmtAt(Len(lowered) + 1).k \in {"Block", "IfExpr", "Match"})
       => /\ phi_data' = phi_data
          /\ break_bb' = break_bb
          /\ continue_bb' = continue_bb]_vars


\* the block the builder is positioned at ends with the ret or br of a
\* return, phi, break or continue statement
EndsWithTerminator ==
    /\ insert_block.k = "Some"
    /\ InsOf(insert_block.v) # << >>
    /\ InsOf(insert_block.v)[Len(InsOf(insert_block.v))].line
           \in {130, 132, 153, 163, 173}

\* C17: in the statement list of a function body, once a return, phi, break
\* or continue statement has been lowered and its terminator ends the
\* current block, the lowering of a later statement of the list adds
\* nothing to that block
C17_NothingAfterTerminator ==
    [][(/\ pc = "body"
        /\ Len(lowered') = Len(lowered) + 1
        /\ EndsWithTerminator
        /\ \E i \in 1..Len(lowered) :
               /\ StmtAt(i).k \in {"Return", "PhiExpr", "Break", "Continue"}
               /\ lowered[i] = "ok")
       => blocks'[insert_block.v].ins = InsOf(insert_block.v)]_vars


\* C18: after a return statement of a function body was lowered with Ok,
\* placed_terminator is true, whatever the returned expression is; and no
\* body has its fall-through branch to the merge block after a ret
C18_ReturnTerminates ==
    /\ (/\ pc = "body"
        /\ Len(lowered) > 0
        /\ StmtAt(Len(lowered)).k = "Return"
        /\ lowered[Len(lowered)] = "ok")
       => placed_terminator
    /\ \A b \in 1..Len(blocks) : \A i \in 1..(Len(InsOf(b)) - 1) :
           InsOf(b)[i].op = "ret" => InsOf(b)[i + 1].line \notin {346, 1485}


IsTerminator(ins) == ins.op \in {"ret", "br", "condbr", "switch"}

\* block b ends with a terminator and has no other
OneTerminator(b) ==
    /\ InsOf(b) # << >>
    /\ \A i \in 1..Len(InsOf(b)) :
           IsTerminator(InsOf(b)[i]) <=> i = Len(InsOf(b))

\* C19: every arm block of a lowered match, the blocks its switch names,
\* ends with exactly one terminator: the arm's own, or the branch to the
\* merge block when the arm did not terminate, whatever the arms before it
\* did
C19_ArmsTerminated ==
    \A b \in 1..Len(blocks) : \A i \in 1..Len(InsOf(b)) :
        InsOf(b)[i].op = "switch" =>
            \A c \in 1..Len(InsOf(b)[i].b) : OneTerminator(InsOf(b)[i].b[c][2])


\* the discriminant a cast of a value of type ty to the enum to_ty stores:
\* the operand of the store gen_cast emits after the alloca of the enum
\* literal and the gep of its field 0
StoredDiscriminant(to_ty, ty) ==
    gen_cast(types, NewBuilder, to_ty, Lit(ty, << >>)).b.code[3].val

\* the switch instructions of the function being lowered
Switches ==
    UNION {{InsOf(b)[i] : i \in {j \in 1..Len(InsOf(b)) : InsOf(b)[j].op = "switch"}} :
              b \in {d \in 1..Len(blocks) : blocks[d].fun = current_fun.v}}

\* C20: in a lowered match the case value of the arm of type T is the
\* discriminant a cast of a T to the matched enum stores, the 8-bit constant
\* of the index of T in the variant list of the enum; the default target of
\* the switch is the merge block
C20_CaseIsCastDiscriminant ==
    (/\ current_fun.k = "Some"
     /\ Len(lowered) > 0
     /\ IsMatch(StmtAt(1))
     /\ lowered[1] = "ok")
    => \A sw \in Switches :
           /\ blocks[sw.a].name = "after_match"
           /\ Len(sw.b) = Len(MatchIn(StmtAt(1)).cases)
           /\ \A c \in 1..Len(sw.b) :
                  /\ ConstOp(sw.b[c][1])
                         = StoredDiscriminant(MatchedType(MatchIn(StmtAt(1))),
                                              MatchIn(StmtAt(1)).cases[c][1])
                  /\ \E k \in 1..Len(MatchedData(MatchIn(StmtAt(1))).parts) :
                         /\ MatchedData(MatchIn(StmtAt(1))).parts[k]
                                = MatchIn(StmtAt(1)).cases[c][1]
                         /\ sw.b[c][1] = ByteOf(k - 1)

\* a match with an arm for each of the first two variants was lowered: its
\* switch has the case 0 for the first and the case 1 for the second
C20_Witness ==
    /\ current_fun.k = "Some"
    /\ Len(lowered) = 1
    /\ lowered[1] = "ok"
    /\ IsMatch(StmtAt(1))
    /\ Len(MatchIn(StmtAt(1)).cases) = 2
    /\ \E sw \in Switches :
           /\ Len(sw.b) = 2
           /\ sw.b[1][1] = ByteOf(0)
           /\ sw.b[2][1] = ByteOf(1)
           /\ sw.b[1][2] # sw.b[2][2]


\* C21: where an else-if forwards its value (the store of astgen.rs:1261),
\* the value stored is the one loaded from the phi-alloca of the nested if
\* that merges at this block, the slot written is the phi-alloca of the
\* outer if, and the block then branches to the merge block of the outer if
C21_ElseIfReachesOuterMerge ==
    \A b \in 1..Len(blocks) : \A i \in 1..Len(InsOf(b)) :
        InsOf(b)[i].line = 1261 =>
            /\ i > 1
            /\ InsOf(b)[i - 1].op = "load"
            /\ \E inner \in phis :
                   inner.alloca = InsOf(b)[i - 1].a /\ inner.break_bb = b
            /\ \E outer \in phis :
                   /\ outer.alloca = InsOf(b)[i].a
                   /\ InsOf(b)[Len(InsOf(b))].op = "br"
                   /\ InsOf(b)[Len(InsOf(b))].a = outer.break_bb


\* instruction i is the alloca gen_lval makes for an expression that is no
\* place: the slot a cast from an enum takes the payload of right away (the
\* slot of an enum literal has its discriminant written first)
IsLvalueAlloca(i) ==
    /\ code[i].op = "alloca"
    /\ i < Len(code)
    /\ code[i + 1].op = "gep"
    /\ code[i + 1].field = 1
    /\ code[i + 1].base = <<"r", code[i].dst>>

\* C22: when a cast expression is lowered in lvalue position, as the operand
\* of a cast from an enum, the fresh stack slot whose pointer gen_lval
\* returns has the value of the expression stored into it
C22_LvalueSlotHoldsValue ==
    (cpc \in {"run", "done"} /\ IsEnumRoundTrip(expr)) =>
        \A i \in 1..Len(code) :
            IsLvalueAlloca(i) =>
                \E s \in 1..Len(code) :
                    /\ code[s].op = "store"
                    /\ code[s].ptr = <<"r", code[i].dst>>


\* the declared type of a returned literal, or of the returned parameter e
ReturnedType(e) ==
    IF e.k = "Lit" THEN e.ty ELSE At(funs, current_fun.v).ty.args[1]

\* C23: a return statement whose returned expression is a literal or the
\* parameter is lowered with Ok exactly when the type of the expression and
\* the declared return type of the function are equal after unwrap_alias
C23_ReturnAliasEqual ==
    (/\ current_fun.k = "Some"
     /\ Len(lowered) > 0
     /\ StmtAt(1).k = "Return"
     /\ StmtAt(1).returned.k \in {"Lit", "Access"})
    => (lowered[1] = "ok"
        <=> unwrap_alias(types, ReturnedType(StmtAt(1).returned))
              = unwrap_alias(types, At(funs, current_fun.v).ty.return_ty))


\* C24: after a match statement, or a `let x = match ...`, of a function
\* body was lowered with Ok, the builder is at the merge block of the match
\* and placed_terminator is false; and in a block body the call that
\* follows a match is lowered into the merge block of the match, which ends
\* with a terminator
C24_MatchLeavesFlagClear ==
    /\ (/\ pc = "body"
        /\ Len(lowered) = 1
        /\ IsMatch(StmtAt(1))
        /\ lowered[1] = "ok")
       => /\ blocks[insert_block.v].name = "after_match"
          /\ ~placed_terminator
    /\ (/\ pc = "body"
        /\ Len(lowered) = 1
        /\ StmtAt(1) = MatchThenCall
        /\ lowered[1] = "ok")
       => \A b \in 1..Len(blocks) :
              (blocks[b].fun = current_fun.v /\ blocks[b].name = "after_match")
                  => /\ OneTerminator(b)
                     /\ \E i \in 1..Len(InsOf(b)) : InsOf(b)[i].op = "call"


\* the statements of the body of the current function are all lowered, each
\* with Ok, and codegen_defs has left the function
BodyDoneClean ==
    /\ current_fun.k = "Some"
    /\ pc \in {"defs", "idle"}
    /\ Len(lowered) = Len(At(funs, current_fun.v).body.v)
    /\ \A i \in 1..Len(lowered) : lowered[i] = "ok"

\* C25: when the body of a function has been emitted without a diagnostic,
\* every basic block of the function ends with a terminator and has no
\* other terminator
C25_BlocksWellFormed ==
    BodyDoneClean =>
        \A b \in 1..Len(blocks) :
            blocks[b].fun = current_fun.v => OneTerminator(b)


\* the names the function layer of the scope stack defines
FunLayerNames == {current_scope[3][i][1] : i \in 1..Len(current_scope[3])}

\* the names of the parameters of the current function and of the variables
\* its statements lowered so far declare themselves
OwnNames ==
    {At(funs, current_fun.v).arg_names[i].v :
        i \in {j \in 1..Len(At(funs, current_fun.v).arg_names) :
                  At(funs, current_fun.v).arg_names[j].k = "Some"}}
    \cup {StmtAt(i).lhs.name :
            i \in {j \in 1..Len(lowered) :
                      /\ StmtAt(j).k = "Assignment"
                      /\ StmtAt(j).lhs.k = "VarDeclaration"}}

\* C26: the scope stack is balanced. Between the statements of a function
\* body it has the base layer, the module's and the function's, whatever
\* bodies were lowered inside the statements and whether they returned Ok
\* or an Err; after a function it has two layers, after a module and after
\* codegen_module one. The function's layer holds the function's own
\* parameters and top-level variables only: nothing declared inside a body
\* that has ended, nothing of another function
C26_ScopeBalanced ==
    /\ pc = "body" => (Len(current_scope) = 3 /\ FunLayerNames \subseteq OwnNames)
    /\ (pc = "defs" /\ work # << >> /\ Head(work).op \in {"fun", "leave"})
           => Len(current_scope) = 2
    /\ (pc = "defs" /\ (work = << >> \/ Head(work).op = "enter"))
           => Len(current_scope) = 1
    /\ pc \in {"idle", "forward"} => Len(current_scope) = 1

\* `if true { break }` was lowered to an Err inside the body of the if, and
\* the stack is back at the three layers of the function
C26_Witness ==
    /\ pc = "body"
    /\ Len(lowered) = 1
    /\ lowered[1] = "err"
    /\ StmtAt(1) = IfExpr(BoolLit, <<Break>>, None)
    /\ Len(current_scope) = 3


\* C27: the initializer of a `let` is evaluated in the scope as it was
\* before the variable was bound: between the alloca of the variable's slot
\* (astgen.rs:63) and the store of the initializer's value into it (l.81)
\* the emitted code never loads from that slot
C27_InitializerSeesOldBinding ==
    \A b \in 1..Len(blocks) : \A i \in 1..Len(InsOf(b)) :
        InsOf(b)[i].line = 63 =>
            \A k \in (i + 1)..Len(InsOf(b)) :
                (InsOf(b)[k].line = 81 /\ InsOf(b)[k].a = InsOf(b)[i].a) =>
                    \A j \in (i + 1)..(k - 1) :
                        ~(InsOf(b)[j].op = "load" /\ InsOf(b)[j].a = InsOf(b)[i].a)


\* C28: after any sequence of codegen_module calls, failed ones included,
\* every FunId of the already-forwarded set has an entry in the map from
\* FunIds to backend functions
C28_ForwardedHaveProtos ==
    codegened_funs \subseteq llvm_funs


\* the payload byte array of the lowered enum: the second member of
\* { i8, [max x i8] }, nothing in { i8 }
PayloadBytes(parts) ==
    IF Len(llvm_ty_enum(types, parts)) = 2 THEN llvm_ty_enum(types, parts)[2] ELSE 0

\* C29: for every enum type of the context and every variant of it, the
\* payload byte array of the lowered enum is at least as large as the
\* lowered representation of the variant, a variant that is itself an enum
\* (discriminant byte plus payload) included
C29_PayloadHoldsVariant ==
    \A i \in 0..(Len(types) - 1) :
        At(types, i).data.k = "Enum" =>
            \A j \in 1..Len(At(types, i).data.parts) :
                PayloadBytes(At(types, i).data.parts)
                    >= LlvmBytes(types, At(types, i).data.parts[j])


(***************************************************************************)
(* SpecMember: member access and struct literals on one struct type        *)
(***************************************************************************)
MaxFields == 3       \* fields of the struct type

FieldNames == <<"a", "b", "c", "d", "e">>
FieldTypes == {UNIT, I32, U8}

\* the field lists: field i is named FieldNames[i]
FieldLists ==
    {[i \in 1..Len(tys) |-> <<tys[i], FieldNames[i]>>] :
        tys \in SeqsUpTo(FieldTypes, MaxFields) \ {<< >>}}

MemberOf(object_ty, field) ==
    [k |-> "MemberAccess", object_ty |-> object_ty, field |-> field]
StructLit(ty, names) == [k |-> "StructLit", ty |-> ty, names |-> names]

\* llvm_ty of a struct: the members of the backend struct, each given as the
\* position of the source field it stores, from source field i on; a field
\* whose type is no basic type (void) has no member
RECURSIVE StructMembers(_, _, _)
StructMembers(store, fields, i) ==
    IF i > Len(fields) THEN << >>
    ELSE (IF IsBasic(store, fields[i][1]) THEN <<i>> ELSE << >>)
         \o StructMembers(store, fields, i + 1)

\* fields.iter().enumerate() / position(|(_ty, fname)| fname == name): the
\* 0-based index of the field named in the source field list, -1 for none
FieldIndex(fields, name) ==
    IF \E i \in 1..Len(fields) : fields[i][2] = name
    THEN (CHOOSE i \in 1..Len(fields) :
             fields[i][2] = name /\ \A j \in 1..(i - 1) : fields[j][2] # name) - 1
    ELSE -1

\* build_struct_gep(ptr, idx, _): the GEP to member idx of the backend
\* struct, None (an Err, unwrapped by the callers) when it has no such member
build_struct_gep(members, idx) ==
    IF idx < Len(members)
    THEN Some([op |-> "gep", field |-> idx, member |-> members[idx + 1]])
    ELSE None

\* the struct literal's loop over the fields it names, from name i on: the
\* GEPs built, stopping at the first that has no member to address
RECURSIVE LiteralGeps(_, _, _, _)
LiteralGeps(fields, members, names, i) ==
    IF i > Len(names) THEN << >>
    ELSE IF build_struct_gep(members, FieldIndex(fields, names[i])).k = "None"
    THEN <<None>>
    ELSE <<build_struct_gep(members, FieldIndex(fields, names[i])).v>>
         \o LiteralGeps(fields, members, names, i + 1)

\* the names of the fields of non-unit type, in source order: the fields a
\* struct literal can give a value for
RECURSIVE ValuedNames(_, _)
ValuedNames(fields, i) ==
    IF i > Len(fields) THEN << >>
    ELSE (IF fields[i][1] # UNIT THEN <<fields[i][2]>> ELSE << >>)
         \o ValuedNames(fields, i + 1)

\* the id new_type gives the struct: the first after the primitives
StructTy == Len(SparkCtxNew)

StructFields == At(types, unwrap_alias(types, StructTy)).data.fields

InitMember ==
    /\ \E fields \in FieldLists :
          /\ types = new_type(SparkCtxNew, Struct("S", fields)).store
          /\ expr \in {MemberOf(StructTy, fields[i][2]) : i \in 1..Len(fields)}
                      \cup {StructLit(StructTy, ValuedNames(fields, 1))}
    /\ irtypes = IrContextNew
    /\ nfuns = 0
    /\ nmodules = 1
    /\ COUNT = 0
    /\ calls = << >>
    /\ code = << >>
    /\ outv = << >>
    /\ cpc = "start"
    /\ ip = 0
    /\ regs = << >>
    /\ mem = << >>
    /\ GenIdle
    /\ DefIdle
    /\ OneCtx

\* gen_member on object.field, the object a place of the struct type: the
\* GEP to the field's index, a panic when build_struct_gep returns an Err
GenMember ==
    /\ cpc = "start"
    /\ expr.k = "MemberAccess"
    /\ code' = IF build_struct_gep(StructMembers(types, StructFields, 1),
                                   FieldIndex(StructFields, expr.field)).k = "Some"
               THEN <<build_struct_gep(StructMembers(types, StructFields, 1),
                                       FieldIndex(StructFields, expr.field)).v>>
               ELSE << >>
    /\ cpc' = IF build_struct_gep(StructMembers(types, StructFields, 1),
                                  FieldIndex(StructFields, expr.field)).k = "Some"
              THEN "done" ELSE "panic"
    /\ UNCHANGED <<ctxVars, genVars, defVars, types2, expr, outv, ip, regs, mem>>

\* gen_literal on a struct literal that names the fields expr.names
GenStructLiteral ==
    /\ cpc = "start"
    /\ expr.k = "StructLit"
    /\ code' = SelectSeq(LiteralGeps(StructFields, StructMembers(types, StructFields, 1),
                                     expr.names, 1),
                         LAMBDA g : g # None)
    /\ cpc' = IF \E i \in 1..Len(LiteralGeps(StructFields,
                                              StructMembers(types, StructFields, 1),
                                              expr.names, 1)) :
                     LiteralGeps(StructFields, StructMembers(types, StructFields, 1),
                                 expr.names, 1)[i] = None
              THEN "panic" ELSE "done"
    /\ UNCHANGED <<ctxVars, genVars, defVars, types2, expr, outv, ip, regs, mem>>

NextMember == GenMember \/ GenStructLiteral

SpecMember == InitMember /\ [][NextMember]_vars

\* source field i of the struct is zero-sized
ZeroSized(i) == size_of_type(types, StructFields[i][1]) = 0

\* the fields addressed: the one accessed, or the ones the literal names
Addressed ==
    IF expr.k = "MemberAccess" THEN {expr.field}
    ELSE {expr.names[i] : i \in 1..Len(expr.names)}

\* C30: for every field f that a member access or a struct literal
\* addresses, a struct GEP is built whose index is the number of fields
\* before f that are not zero-sized, so that it designates the member of
\* the lowered struct that stores f; for a zero-sized field no GEP is built
C30_FieldIndexSkipsZeroSized ==
    cpc \in {"done", "panic"} =>
        \A i \in 1..Len(StructFields) :
            StructFields[i][2] \in Addressed =>
                IF ZeroSized(i)
                THEN code = << >>
                ELSE \E k \in 1..Len(code) :
                        /\ code[k].member = i
                        /\ code[k].field
                             = Cardinality({j \in 1..(i - 1) : ~ZeroSized(j)})

====
